---- MODULE Spec2Model ----
(***************************************************************************)
(* Model of bin/compound-quality.mjs: the reflect run (coverage ratchet    *)
(* and pattern tracker), the scorecard computation, the verify policy      *)
(* merge and the verify run (task ids, gates, waivers, outcome).           *)
(*                                                                         *)
(* Units.  Percentages and scores carry two decimals in the program        *)
(* (Number(x.toFixed(2))); the model holds them as integers counting       *)
(* hundredths, so 92% is 9200 and the 2-point margin is 200.  Weights are  *)
(* held in hundredths as well (0.25 is 25), which makes a weighted sum an  *)
(* integer counting 1/10000 of a point.                                    *)
(***************************************************************************)
EXTENDS Integers, Sequences, FiniteSets, TLC

VARIABLES
    \* ---- reflect: persisted .quality state and the config it runs under
    scorecard,      \* scorecard.json (exists = FALSE: no file yet)
    previous,       \* what the latest run read from scorecard.json before its checks
    patterns,       \* patterns.json .patterns: key -> [count, lastSeenAt, recommendation]
    detected,       \* detectPatterns' result in the latest run: key -> matches (> 0)
    promotions,     \* the promotions array of the latest run
    reflections,    \* reflections/: the Promotions section of each run's file, oldest first
    now,            \* the clock: the timestamp the latest run wrote
    thresholds,     \* config.patterns.{claudeRuleThreshold, lintRuleThreshold}
    \* ---- scorecard computation
    metrics,        \* the metrics snapshot handed to computeComponentScores
    weights,        \* config.weights
    score,          \* what computeComponentScores returned (done = FALSE: not yet)
    \* ---- verify policy merge
    packFiles,      \* the verify objects of the packs named by verify.policyPacks, in order
    repoVerify,     \* userConfig.verify
    effective,      \* what normalizeVerifyConfig returned (no "gates" key: not yet)
    \* ---- verify run
    env,            \* what the run finds around it: --task-id, the environment
                    \* variable, the branch name, the waivers file
    pc,             \* runVerify's position: idle, gates, done, disabled, aborted
    gateIndex,      \* the gate of verifyConfig.gates the loop stands at
    taskIds,        \* resolveTaskIds' result
    waivers,        \* loadWaivers' result
    evaluated,      \* what evaluateVerifyGate returned, call by call
    lookups,        \* the gate results handed to findMatchingWaiver, call by call
    gateResults,    \* runVerify's gateResults
    verification,   \* verification.json (written = FALSE: no file)
    exitCode,       \* process.exitCode
    \* ---- the invocation around the checks
    userConfig,     \* what normalizeConfig and loadPolicyPack find in the config
    commandResults, \* runReflect's commandResults, command by command
    rpc,            \* runReflect's position: idle, checks, done, aborted, stopped
    actionItems,    \* scorecard.actionItems (built = FALSE: not yet)
    \* ---- the loop
    control,        \* ralph-control.json (exists = FALSE: no file)
    loopState,      \* ralph-loop.json (exists = FALSE: no file)
    reported,       \* what the latest ralph-loop invocation printed
    \* ---- schema validation
    schema,         \* the schema handed to validateJsonAgainstSchema
    data,           \* the JSON value handed to it
    errors          \* what it returned (done = FALSE: not yet)

reflectVars == <<scorecard, previous, patterns, detected, promotions, reflections, now,
                 thresholds>>
scoreVars == <<metrics, weights, score>>
mergeVars == <<packFiles, repoVerify, effective>>
runVars == <<env, pc, gateIndex, taskIds, waivers, evaluated, lookups, gateResults,
             verification, exitCode>>
stepVars == <<commandResults, rpc>>
loopVars == <<control, loopState, reported>>
schemaVars == <<schema, data, errors>>
sessionVars == <<userConfig, commandResults, rpc, actionItems, control, loopState,
                 reported, schema, data, errors>>
vars == <<scorecard, previous, patterns, detected, promotions, reflections, now, thresholds,
          metrics, weights, score, packFiles, repoVerify, effective,
          env, pc, gateIndex, taskIds, waivers, evaluated, lookups, gateResults,
          verification, exitCode, userConfig, commandResults, rpc, actionItems,
          control, loopState, reported, schema, data, errors>>

Max(a, b) == IF a >= b THEN a ELSE b
Min(a, b) == IF a <= b THEN a ELSE b

\* The function with the empty domain: the JavaScript object {}.
EmptyObject == [k \in {} |-> 0]

(***************************************************************************)
(* Bounds of the model.                                                    *)
(***************************************************************************)
MaxRuns == 4            \* reflect runs in one behaviour
MaxPatternRuns == 3     \* reflect runs in one behaviour, where the pattern matches vary
MaxSummaryRuns == 2     \* reflect runs in one behaviour, where the summary files vary
MaxSeen == 3            \* matches of one pattern in one run's output
ExpectedPackages == 2   \* package directories of the default config, which it expects in full
MaxTypeErrors == 13     \* type errors in a metrics snapshot (13 * 8 > 100)
MaxLintViolations == 26 \* lint violations in a metrics snapshot (26 * 4 > 100)
MaxTests == 2           \* tests passed, and tests failed, in a metrics snapshot
MaxPackageDirs == 3     \* package directories listed in coverage.packageDirs
MaxHistoryRuns == 52    \* reflect runs in a row, where the history fills up
MaxStepRuns == 2        \* reflect runs that complete, where runs go step by step
MaxPacks == 2           \* policy packs listed in verify.policyPacks
MaxGates == 3           \* gate entries written over all packs and the repo block
MaxVerifyGates == 2     \* gates the verify block lists in a verify run
MaxWaivers == 2         \* entries of the waivers file

(***************************************************************************)
(* Reflect: inputs.                                                        *)
(***************************************************************************)
\* The keys of the configured pattern rules, in rule order.
PatternRules == <<"cannot_find_module", "type_mismatch">>
PatternKeys == {PatternRules[i] : i \in DOMAIN PatternRules}

\* readCoveragePct's pct, in hundredths: below the 2-point margin, mid, high.
CoveragePcts == {150, 5000, 9200}

\* normalizeConfig's defaults for the two thresholds.
ClaudeRuleThreshold == 3
LintRuleThreshold == 5
DefaultThresholds == [claudeRule |-> ClaudeRuleThreshold, lintRule |-> LintRuleThreshold]
\* The threshold pairs a config may carry: the defaults and a stricter pair.
ThresholdChoices == {DefaultThresholds, [claudeRule |-> 1, lintRule |-> 2]}

Recommendations == {"none", "claude_rule", "lint_rule"}
\* none < claude_rule < lint_rule
RecRank(r) == CASE r = "none" -> 0 [] r = "claude_rule" -> 1 [] r = "lint_rule" -> 2

(***************************************************************************)
(* Reflect: the code.                                                      *)
(***************************************************************************)
\* Mutant: the claude threshold compared with = instead of >=.
RecommendationForCountExact(count, th) ==
    IF count >= th.lintRule THEN "lint_rule"
    ELSE IF count = th.claudeRule THEN "claude_rule"
    ELSE "none"

\* Mutant: the claude threshold is tested first.
RecommendationForCountClaudeFirst(count, th) ==
    IF count >= th.claudeRule THEN "claude_rule"
    ELSE IF count >= th.lintRule THEN "lint_rule"
    ELSE "none"

RecommendationForCount(count, th) ==
    IF count >= th.lintRule THEN "lint_rule"
    ELSE IF count >= th.claudeRule THEN "claude_rule"
    ELSE "none"

\* detectPatterns: the matches of each rule in the run's output, kept only
\* when positive.  The output is abstracted to its match count per rule.
DetectPatterns(output) ==
    [k \in {p \in PatternKeys : output[p] > 0} |-> output[k]]

\* readCoveragePct: no summary read gives pct 0.
ReadCoveragePct(pct, packageCount) ==
    [pct |-> IF packageCount = 0 THEN 0 ELSE pct, packageCount |-> packageCount]

\* runReflect, the ratchet: candidateFloor and the floor to persist.
CandidateFloor(pct) == Max(0, pct - 200)

\* previous?.thresholds?.coverageQualified ?? false, ...coverageFloor ?? 0
PreviousThresholds(file) ==
    [coverageQualified |-> IF file.exists THEN file.coverageQualified ELSE FALSE,
     coverageFloor |-> IF file.exists THEN file.coverageFloor ELSE 0]

\* Mutant: a qualified run takes the candidate without the max.
CoverageFloorNoMax(prev, coverageQualified, pct) ==
    IF coverageQualified THEN CandidateFloor(pct) ELSE prev.coverageFloor

\* Mutant: the floor follows the measured coverage whether qualified or not.
CoverageFloorUnguarded(prev, coverageQualified, pct) ==
    IF prev.coverageQualified
    THEN Max(prev.coverageFloor, CandidateFloor(pct))
    ELSE CandidateFloor(pct)

\* Mutant: the reset after an unqualified run keeps the margin off (pct itself).
CoverageFloorResetToPct(prev, coverageQualified, pct) ==
    IF coverageQualified
    THEN IF prev.coverageQualified
         THEN Max(prev.coverageFloor, CandidateFloor(pct))
         ELSE pct
    ELSE prev.coverageFloor

\* Mutant: the reset after an unqualified run still honours the stored floor.
CoverageFloorResetKeepsStored(prev, coverageQualified, pct) ==
    IF coverageQualified
    THEN Max(prev.coverageFloor, CandidateFloor(pct))
    ELSE prev.coverageFloor

CoverageFloor(prev, coverageQualified, pct) ==
    IF coverageQualified
    THEN IF prev.coverageQualified
         THEN Max(prev.coverageFloor, CandidateFloor(pct))
         ELSE CandidateFloor(pct)
    ELSE prev.coverageFloor

\* Mutant: more summaries than expected qualify as well.
CoverageQualifiedAtLeast(testExitCode, coverage, config) ==
    testExitCode = 0 /\ coverage.packageCount >= config.coverage.expectedPackages

CoverageQualified(testExitCode, coverage, config) ==
    testExitCode = 0 /\ coverage.packageCount = config.coverage.expectedPackages

\* Mutant: the run's matches replace the total instead of adding to it.
UpdatedCountReset(existing, seenCount) == seenCount

\* runReflect's updatedCount.
UpdatedCount(existing, seenCount) == existing.count + seenCount

\* Mutant: a promotion on every run that leaves the pattern above none.
ShouldPromoteEveryRun(recommendation, existing) ==
    recommendation # "none"

\* runReflect's test for pushing a promotion.
ShouldPromote(recommendation, existing) ==
    recommendation # "none" /\ recommendation # existing.recommendation

\* runReflect, the loop over Object.entries(detected): one pattern's update.
RECURSIVE UpdatePatterns(_, _, _, _, _, _)
UpdatePatterns(file, promos, keys, counts, th, at) ==
    IF keys = <<>> THEN [patterns |-> file, promotions |-> promos]
    ELSE LET pattern == Head(keys) IN
         IF pattern \notin DOMAIN counts
         THEN UpdatePatterns(file, promos, Tail(keys), counts, th, at)
         ELSE LET existing == IF pattern \in DOMAIN file THEN file[pattern]
                              ELSE [count |-> 0, lastSeenAt |-> at, recommendation |-> "none"]
                  updatedCount == UpdatedCount(existing, counts[pattern])
                  recommendation == RecommendationForCount(updatedCount, th)
                  entry == [count |-> updatedCount, lastSeenAt |-> at,
                            recommendation |-> recommendation]
                  nextFile == [k \in DOMAIN file \cup {pattern} |->
                                 IF k = pattern THEN entry ELSE file[k]]
                  nextPromos == IF ShouldPromote(recommendation, existing)
                                THEN Append(promos, [pattern |-> pattern, recommendation |-> recommendation])
                                ELSE promos
              IN  UpdatePatterns(nextFile, nextPromos, Tail(keys), counts, th, at)

REQUIRED_COMMAND_NAMES == <<"typecheck", "lint", "test", "build">>

\* What normalizeConfig and loadPolicyPack look at: the names under commands
\* that hold a command string, the length of coverage.packageDirs,
\* coverage.expectedPackages (<<>>: not given, <<n>>: given as n), whether
\* every policy pack reference resolves to a file holding an object.
ValidConfig ==
    [commands |-> {"typecheck", "lint", "test", "build"},
     packageDirs |-> ExpectedPackages, expectedPackages |-> <<>>,
     packsFound |-> TRUE]

\* Mutant: only a missing command is an error.
NormalizeConfigThrowsOnCommands(config) ==
    \E i \in DOMAIN REQUIRED_COMMAND_NAMES : REQUIRED_COMMAND_NAMES[i] \notin config.commands

\* normalizeConfig throws on a missing command and on an empty packageDirs.
NormalizeConfigThrows(config) ==
    \/ \E i \in DOMAIN REQUIRED_COMMAND_NAMES : REQUIRED_COMMAND_NAMES[i] \notin config.commands
    \/ config.packageDirs = 0

\* normalizeConfig's result, the coverage block:
\* expectedPackages: coverage.expectedPackages ?? packageDirs.length
NormalizeConfig(config) ==
    [coverage |->
        [packageDirs |-> config.packageDirs,
         expectedPackages |-> IF config.expectedPackages = <<>>
                              THEN config.packageDirs
                              ELSE config.expectedPackages[1]]]

\* loadPolicyPack throws on a reference that resolves to no such file.
LoadPolicyPackThrows(config) == ~config.packsFound

\* config.commands.map(runCommand) on the given exit codes.
CommandResults(exitCodes) ==
    [i \in DOMAIN exitCodes |-> [name |-> REQUIRED_COMMAND_NAMES[i], exitCode |-> exitCodes[i]]]

\* commandResults.find((result) => result.name === name)?.exitCode ?? 1
ExitCodeOf(results, name) ==
    IF \E i \in DOMAIN results : results[i].name = name
    THEN results[CHOOSE i \in DOMAIN results : results[i].name = name].exitCode
    ELSE 1

\* The entries scorecard.history keeps.
HistoryLimit == 50

\* list.slice(-n): the last n entries, all of them when there are fewer.
SliceLast(list, n) == SubSeq(list, Max(1, Len(list) - n + 1), Len(list))

\* Mutant: the list stops growing at the limit, the new entry is the one dropped.
HistoryKeepOldest(file, entry) ==
    LET list == Append(IF file.exists THEN file.history ELSE <<>>, entry)
    IN  SubSeq(list, 1, Min(Len(list), HistoryLimit))

\* runReflect's history: the previous scorecard's entries (none without a
\* scorecard), then this run's entry, cut to the last HistoryLimit.
History(file, entry) ==
    SliceLast(Append(IF file.exists THEN file.history ELSE <<>>, entry), HistoryLimit)

\* One reflect run: the four checks ran, their output was parsed into
\* (pct, packageCount, testExitCode, output); both files are rewritten.
\* A history entry is held as its timestamp and its coverage.
Reflect(pct, packageCount, testExitCode, output) ==
    LET coverage == ReadCoveragePct(pct, packageCount)
        coverageQualified == CoverageQualified(testExitCode, coverage,
                                               NormalizeConfig(userConfig))
        prev == PreviousThresholds(scorecard)
        coverageFloor == CoverageFloor(prev, coverageQualified, coverage.pct)
        updated == UpdatePatterns(patterns, <<>>, PatternRules, DetectPatterns(output),
                                  thresholds, now + 1)
    IN  /\ now' = now + 1
        /\ previous' = prev
        /\ scorecard' = [exists |-> TRUE,
                         coveragePct |-> coverage.pct,
                         coverageFloor |-> coverageFloor,
                         coverageQualified |-> coverageQualified,
                         coveragePackageCount |-> coverage.packageCount,
                         testExitCode |-> testExitCode,
                         history |-> History(scorecard, [at |-> now + 1,
                                                         coveragePct |-> coverage.pct])]
        /\ detected' = DetectPatterns(output)
        /\ patterns' = updated.patterns
        /\ promotions' = updated.promotions
        /\ reflections' = Append(reflections, updated.promotions)
        /\ UNCHANGED <<thresholds, scoreVars, mergeVars, runVars>>
        /\ UNCHANGED <<userConfig, actionItems, schemaVars>>

\* A reflect run of a behaviour that holds at most MaxRuns of them.
RunReflect(pct, packageCount, testExitCode, output) ==
    /\ now < MaxRuns
    /\ Reflect(pct, packageCount, testExitCode, output)

\* The ratchet and the pattern tracker read disjoint inputs and write
\* disjoint fields, so each is explored over its own inputs with the other
\* side's inputs held to one value.

\* Runs over every coverage outcome; the output matches no pattern rule.
ReflectCoverage ==
    \E pct \in CoveragePcts, packageCount \in (ExpectedPackages - 1)..ExpectedPackages,
       testExitCode \in {0, 1} :
        /\ RunReflect(pct, packageCount, testExitCode, [p \in PatternKeys |-> 0])
        /\ commandResults' = CommandResults(<<0, 0, testExitCode, 0>>)
        /\ rpc' = "done"
        /\ UNCHANGED loopVars

\* Runs over every match count of every rule; coverage is a fully collected
\* 92% with passing tests.
ReflectPatterns ==
    \E output \in [PatternKeys -> 0..MaxSeen] :
        /\ now < MaxPatternRuns
        /\ RunReflect(9200, ExpectedPackages, 0, output)
        /\ commandResults' = CommandResults(<<0, 0, 0, 0>>)
        /\ rpc' = "done"
        /\ UNCHANGED loopVars

\* The user edits patterns.claudeRuleThreshold / lintRuleThreshold in the
\* config file between two runs.
EditThresholds ==
    /\ now < MaxRuns
    /\ \E th \in ThresholdChoices \ {thresholds} : thresholds' = th
    /\ UNCHANGED <<scorecard, previous, patterns, detected, promotions, reflections, now,
                   scoreVars, mergeVars, runVars>>
    /\ UNCHANGED sessionVars

NoScorecard ==
    [exists |-> FALSE, coveragePct |-> 0, coverageFloor |-> 0, coverageQualified |-> FALSE,
     coveragePackageCount |-> 0, testExitCode |-> 0, history |-> <<>>]

IdleScore ==
    /\ metrics = EmptyObject
    /\ weights = EmptyObject
    /\ score = [done |-> FALSE]

IdleMerge ==
    /\ packFiles = <<>>
    /\ repoVerify = EmptyObject
    /\ effective = EmptyObject

\* A valid configuration, no reflect run under way, no action items built.
IdleChecks ==
    /\ userConfig = ValidConfig
    /\ commandResults = <<>>
    /\ rpc = "idle"
    /\ actionItems = [built |-> FALSE]

\* No loop files.
IdleLoop ==
    /\ control = [exists |-> FALSE]
    /\ loopState = [exists |-> FALSE]
    /\ reported = [action |-> "none"]

\* Nothing handed to the schema validator.
IdleSchema ==
    /\ schema = EmptyObject
    /\ data = EmptyObject
    /\ errors = [done |-> FALSE]

IdleSession == IdleChecks /\ IdleLoop /\ IdleSchema

\* No verify run yet: no verification.json, exit code 0.
NotStarted ==
    /\ pc = "idle"
    /\ gateIndex = 1
    /\ taskIds = <<>>
    /\ waivers = <<>>
    /\ evaluated = <<>>
    /\ lookups = <<>>
    /\ gateResults = <<>>
    /\ verification = [written |-> FALSE]
    /\ exitCode = 0

\* No verify run yet, and nothing on the command line, in the environment or
\* on the branch, no waivers file.
NoVerifyRun ==
    /\ env = [taskId |-> <<>>, envVar |-> <<>>, branch |-> <<>>,
              waiversFile |-> [kind |-> "absent"]]
    /\ NotStarted

IdleRun == IdleSession /\ NoVerifyRun

InitReflect ==
    /\ scorecard = NoScorecard
    /\ previous = PreviousThresholds(NoScorecard)
    /\ patterns = EmptyObject
    /\ detected = EmptyObject
    /\ promotions = <<>>
    /\ reflections = <<>>
    /\ now = 0
    /\ thresholds \in ThresholdChoices
    /\ IdleScore
    /\ IdleMerge
    /\ IdleRun

\* Reflect runs over the coverage outcomes.
SpecCoverage == InitReflect /\ [][ReflectCoverage]_vars

\* Reflect runs over the pattern matches, under thresholds that stay as they are.
SpecPatterns == InitReflect /\ [][ReflectPatterns]_vars

\* Reflect runs over the pattern matches with threshold edits in between.
NextCfg == ReflectPatterns \/ EditThresholds
SpecCfg == InitReflect /\ [][NextCfg]_vars

(***************************************************************************)
(* Reflect: enough runs in a row to fill the history.                      *)
(***************************************************************************)
\* One reflect run at a fully collected 92%, tests passing or failing.
ReflectHistory ==
    /\ now < MaxHistoryRuns
    /\ \E testExitCode \in {0, 1} :
          /\ Reflect(9200, ExpectedPackages, testExitCode, [p \in PatternKeys |-> 0])
          /\ commandResults' = CommandResults(<<0, 0, testExitCode, 0>>)
    /\ rpc' = "done"
    /\ UNCHANGED loopVars

SpecHistory == InitReflect /\ [][ReflectHistory]_vars

(***************************************************************************)
(* Reflect: the coverage reader over the summary files, and qualification  *)
(* under a config whose expectedPackages need not be its packageDirs'      *)
(* length.                                                                 *)
(***************************************************************************)
\* What a package directory holds at summaryFile: no file, a file that does
\* not parse or has no numeric total.lines.pct, a summary with its pct.
SummaryFiles ==
    {[kind |-> "absent"], [kind |-> "malformed"],
     [kind |-> "summary", pct |-> 5000], [kind |-> "summary", pct |-> 9200]}

RECURSIVE Sum(_)
Sum(values) == IF values = <<>> THEN 0 ELSE Head(values) + Sum(Tail(values))

\* readCoveragePct over the package directories: the values pushed, their
\* average to two decimals, their number.
ReadCoverage(summaryFiles) ==
    LET yielded == SelectSeq(summaryFiles, LAMBDA file : file.kind = "summary")
        values == [i \in DOMAIN yielded |-> yielded[i].pct]
    IN  IF Len(values) = 0
        THEN [pct |-> 0, packageCount |-> 0]
        ELSE [pct |-> (2 * Sum(values) + Len(values)) \div (2 * Len(values)),
              packageCount |-> Len(values)]

\* The configs of the coverage block: one to MaxPackageDirs directories,
\* expectedPackages left out or given.
CoverageConfigs ==
    {[ValidConfig EXCEPT !.packageDirs = dirs, !.expectedPackages = expected] :
        dirs \in 1..MaxPackageDirs,
        expected \in {<<>>} \cup {<<n>> : n \in 1..MaxPackageDirs}}

\* One reflect run over what the package directories hold.
ReflectSummaries ==
    \E summaryFiles \in [1..userConfig.packageDirs -> SummaryFiles], testExitCode \in {0, 1} :
        LET coverage == ReadCoverage(summaryFiles) IN
        /\ now < MaxSummaryRuns
        /\ Reflect(coverage.pct, coverage.packageCount, testExitCode,
                   [p \in PatternKeys |-> 0])
        /\ commandResults' = CommandResults(<<0, 0, testExitCode, 0>>)
        /\ rpc' = "done"
        /\ UNCHANGED loopVars

InitQualified ==
    /\ scorecard = NoScorecard
    /\ previous = PreviousThresholds(NoScorecard)
    /\ patterns = EmptyObject
    /\ detected = EmptyObject
    /\ promotions = <<>>
    /\ reflections = <<>>
    /\ now = 0
    /\ thresholds = DefaultThresholds
    /\ IdleScore
    /\ IdleMerge
    /\ NoVerifyRun
    /\ userConfig \in CoverageConfigs
    /\ commandResults = <<>>
    /\ rpc = "idle"
    /\ actionItems = [built |-> FALSE]
    /\ IdleLoop
    /\ IdleSchema

\* Reflect runs over the summary files of a config's package directories.
SpecQualified == InitQualified /\ [][ReflectSummaries]_vars

(***************************************************************************)
(* Scorecard computation.                                                  *)
(***************************************************************************)
\* Metrics snapshots: counts from the parsers (never negative), the coverage
\* average as read from the summaries (any number: below 0 and above 100
\* included) and the build's exit code.
MetricsSnapshots ==
    [typeErrors : 0..MaxTypeErrors,
     lintViolations : 0..MaxLintViolations,
     testsPassed : 0..MaxTests,
     testsFailed : 0..MaxTests,
     coveragePct : {-500, 150, 9200, 12000},
     buildExitCode : {0, 1}]

\* DEFAULT_WEIGHTS, in hundredths.
DefaultWeights ==
    [typeSafety |-> 25, testHealth |-> 30, lintCompliance |-> 15,
     coverageLevel |-> 20, buildStability |-> 10]
\* Weight maps a config may carry: the defaults, all zero, all 1.0 (sum 5),
\* and one with negative weights.
WeightMaps ==
    {DefaultWeights,
     [typeSafety |-> 0, testHealth |-> 0, lintCompliance |-> 0,
      coverageLevel |-> 0, buildStability |-> 0],
     [typeSafety |-> 100, testHealth |-> 100, lintCompliance |-> 100,
      coverageLevel |-> 100, buildStability |-> 100],
     [typeSafety |-> -50, testHealth |-> 30, lintCompliance |-> -15,
      coverageLevel |-> 20, buildStability |-> -10]}

\* Mutant: the rounding without the clamp.
ToScoreNoClamp(num, den) ==
    IF num >= 0 THEN (200 * num + den) \div (2 * den)
    ELSE -((200 * (-num) + den) \div (2 * den))

\* Mutant: the clamp, then a rounding to whole points.
ToScoreWholePoints(num, den) ==
    IF num <= 0 THEN 0
    ELSE IF num >= 100 * den THEN 10000
    ELSE 100 * ((2 * num + den) \div (2 * den))

\* toScore(raw) for raw = num / den points (den > 0): clamp to [0, 100], then
\* toFixed(2); the result in hundredths.  toFixed rounds to the nearest
\* hundredth and takes the larger one on a tie.
ToScore(num, den) ==
    IF num <= 0 THEN 0
    ELSE IF num >= 100 * den THEN 10000
    ELSE (200 * num + den) \div (2 * den)

\* Mutant: no test ran is read as a failure.
TestHealthNoTestsAsFailure(m) ==
    LET testTotal == m.testsPassed + m.testsFailed
    IN  IF testTotal = 0
        THEN ToScore(IF m.testsFailed = 0 THEN 20 ELSE 70, 1)
        ELSE ToScore(m.testsPassed * 100, testTotal)

\* computeComponentScores' testHealth.
TestHealth(m) ==
    LET testTotal == m.testsPassed + m.testsFailed
    IN  IF testTotal = 0
        THEN ToScore(IF m.testsFailed = 0 THEN 70 ELSE 20, 1)
        ELSE ToScore(m.testsPassed * 100, testTotal)

ComputeComponentScores(m, w) ==
    LET typeSafety == ToScore(IF m.typeErrors = 0 THEN 100 ELSE 100 - m.typeErrors * 8, 1)
        testHealth == TestHealth(m)
        lintCompliance == ToScore(IF m.lintViolations = 0 THEN 100
                                  ELSE 100 - m.lintViolations * 4, 1)
        coverageLevel == ToScore(m.coveragePct, 100)
        buildStability == IF m.buildExitCode = 0 THEN 10000 ELSE 0
        overall == ToScore(typeSafety * w.typeSafety + testHealth * w.testHealth
                           + lintCompliance * w.lintCompliance
                           + coverageLevel * w.coverageLevel
                           + buildStability * w.buildStability, 10000)
    IN  [done |-> TRUE,
         overall |-> overall,
         components |-> [typeSafety |-> typeSafety, testHealth |-> testHealth,
                         lintCompliance |-> lintCompliance,
                         coverageLevel |-> coverageLevel,
                         buildStability |-> buildStability]]

\* runReflect's call of computeComponentScores on the snapshot it collected.
ComputeScore ==
    /\ ~score.done
    /\ score' = ComputeComponentScores(metrics, weights)
    /\ UNCHANGED <<metrics, weights, reflectVars, mergeVars, runVars>>
    /\ UNCHANGED sessionVars

IdleReflect ==
    /\ scorecard = NoScorecard
    /\ previous = PreviousThresholds(NoScorecard)
    /\ patterns = EmptyObject
    /\ detected = EmptyObject
    /\ promotions = <<>>
    /\ reflections = <<>>
    /\ now = 0
    /\ thresholds = DefaultThresholds

InitScore ==
    /\ metrics \in MetricsSnapshots
    /\ weights \in WeightMaps
    /\ score = [done |-> FALSE]
    /\ IdleReflect
    /\ IdleMerge
    /\ IdleRun

SpecScore == InitScore /\ [][ComputeScore]_vars

(***************************************************************************)
(* Verify policy merge.                                                    *)
(*                                                                         *)
(* A JSON object is a function from its keys; a key the object does not    *)
(* carry is outside its DOMAIN.  A verify object whose gates value is not  *)
(* an array is treated by the code as one without gates, and is modelled   *)
(* as one without the key; a gate whose id is falsy as one without id.     *)
(***************************************************************************)
\* Gate entries a pack or the repo block may list: two entries of one id
\* setting different fields, one setting a field of it differently, another
\* id, and an entry without id.
GateUniverse ==
    {[id |-> "build", type |-> "command"],
     [id |-> "build", required |-> "false"],
     [id |-> "build", type |-> "regex"],
     [id |-> "docs", type |-> "file_exists"],
     [type |-> "command"]}
GateFields == {"id", "type", "required"}

\* References of the packs, as listed in verify.policyPacks.
PackReferences == <<"packs/a.json", "packs/b.json", "packs/c.json", "packs/d.json">>

\* A value of the taskIdSources key: a JSON array, or a JSON string (the value
\* that fails Array.isArray).
JsonArray(items) == [isArray |-> TRUE, items |-> items]
JsonString(text) == [isArray |-> FALSE, text |-> text]

DEFAULT_VERIFY_CONFIG ==
    [enabled |-> FALSE,
     policyPacks |-> <<>>,
     requiredTaskEvidence |-> FALSE,
     taskIdPattern |-> "\\b[A-Z][A-Z0-9]+-\\d+\\b",
     taskIdSources |-> JsonArray(<<"cli", "env", "branch">>),
     envTaskIdVar |-> "CQ_TASK_ID",
     doneEvidenceDir |-> ".quality/done-evidence",
     evidenceSchemaFile |-> "docs/engineering/schemas/autonomy-done-evidence.schema.json",
     waiversFile |-> ".quality/waivers.json",
     gates |-> <<>>]

\* normalizeConfig's commands, as the repo config names them.
RepoCommands ==
    [typecheck |-> "pnpm run typecheck", lint |-> "pnpm run lint",
     test |-> "pnpm run test -- --coverage", build |-> "pnpm run build"]

HasId(gate) == "id" \in DOMAIN gate

\* Mutant: the incoming gate replaces the record instead of patching it.
SpreadReplace(existing, gate) == gate

\* { ...existing, ...gate }
Spread(existing, gate) ==
    [k \in DOMAIN existing \cup DOMAIN gate |->
        IF k \in DOMAIN gate THEN gate[k] ELSE existing[k]]

\* Map.get(id) ?? {} on the insertion-ordered map, held as the sequence of
\* its values (each value carries its key as id).
MapGet(byId, id) ==
    IF \E i \in DOMAIN byId : byId[i].id = id
    THEN byId[CHOOSE i \in DOMAIN byId : byId[i].id = id]
    ELSE EmptyObject

\* Mutant: a known key is deleted and set again, which moves it last.
MapSetMoveLast(byId, gate) ==
    Append(SelectSeq(byId, LAMBDA g : g.id # gate.id), gate)

\* Mutant: a list push instead of a keyed set.
MapSetPush(byId, gate) == Append(byId, gate)

\* Map.set(gate.id, gate): a known key keeps its place, a new one goes last.
MapSet(byId, gate) ==
    IF \E i \in DOMAIN byId : byId[i].id = gate.id
    THEN [i \in DOMAIN byId |-> IF byId[i].id = gate.id THEN gate ELSE byId[i]]
    ELSE Append(byId, gate)

\* mergeGates' first loop: base gates enter the map as they are.
RECURSIVE SetBaseGates(_, _)
SetBaseGates(byId, gates) ==
    IF gates = <<>> THEN byId
    ELSE IF ~HasId(Head(gates)) THEN SetBaseGates(byId, Tail(gates))
    ELSE SetBaseGates(MapSet(byId, Head(gates)), Tail(gates))

\* mergeGates' second loop: each patch gate is spread over what the map holds.
RECURSIVE PatchGates(_, _)
PatchGates(byId, gates) ==
    IF gates = <<>> THEN byId
    ELSE IF ~HasId(Head(gates)) THEN PatchGates(byId, Tail(gates))
    ELSE PatchGates(MapSet(byId, Spread(MapGet(byId, Head(gates).id), Head(gates))),
                    Tail(gates))

MergeGates(baseGates, patchGates) ==
    PatchGates(SetBaseGates(<<>>, baseGates), patchGates)

ApplyVerifyPatch(base, patch) ==
    LET scalars == DOMAIN patch \ {"gates"}
        next == [k \in DOMAIN base \cup scalars |->
                    IF k \in scalars THEN patch[k] ELSE base[k]]
    IN  IF "gates" \in DOMAIN patch
        THEN [k \in DOMAIN next \cup {"gates"} |->
                IF k = "gates"
                THEN MergeGates(IF "gates" \in DOMAIN next THEN next.gates ELSE <<>>,
                                patch.gates)
                ELSE next[k]]
        ELSE next

\* normalizeVerifyConfig's loop over the packs.
RECURSIVE ApplyPacks(_, _)
ApplyPacks(merged, packs) ==
    IF packs = <<>> THEN merged
    ELSE ApplyPacks(ApplyVerifyPatch(merged, Head(packs)), Tail(packs))

\* Mutant: a commands object that a pack or the verify block carries survives.
NormalizeVerifyConfigKeepCommands(packs, repo) ==
    LET packRefs == SubSeq(PackReferences, 1, Len(packs))
        merged == ApplyVerifyPatch(ApplyPacks(DEFAULT_VERIFY_CONFIG, packs), repo)
        added == {"policyPacks", "loadedPolicyPacks", "gates", "taskIdSources", "commands"}
    IN  [k \in DOMAIN merged \cup added |->
            CASE k = "policyPacks" -> packRefs
              [] k = "loadedPolicyPacks" ->
                    [i \in DOMAIN packRefs |-> [reference |-> packRefs[i], path |-> packRefs[i]]]
              [] k = "gates" -> IF "gates" \in DOMAIN merged THEN merged.gates ELSE <<>>
              [] k = "taskIdSources" ->
                    IF \/ "taskIdSources" \notin DOMAIN merged
                       \/ ~merged.taskIdSources.isArray
                       \/ merged.taskIdSources.items = <<>>
                    THEN DEFAULT_VERIFY_CONFIG.taskIdSources
                    ELSE merged.taskIdSources
              [] k = "commands" ->
                    IF "commands" \in DOMAIN merged THEN merged.commands ELSE RepoCommands
              [] OTHER -> merged[k]]

NormalizeVerifyConfig(packs, repo) ==
    LET packRefs == SubSeq(PackReferences, 1, Len(packs))
        merged == ApplyVerifyPatch(ApplyPacks(DEFAULT_VERIFY_CONFIG, packs), repo)
        added == {"policyPacks", "loadedPolicyPacks", "gates", "taskIdSources", "commands"}
    IN  [k \in DOMAIN merged \cup added |->
            CASE k = "policyPacks" -> packRefs
              [] k = "loadedPolicyPacks" ->
                    [i \in DOMAIN packRefs |-> [reference |-> packRefs[i], path |-> packRefs[i]]]
              [] k = "gates" -> IF "gates" \in DOMAIN merged THEN merged.gates ELSE <<>>
              [] k = "taskIdSources" ->
                    IF \/ "taskIdSources" \notin DOMAIN merged
                       \/ ~merged.taskIdSources.isArray
                       \/ merged.taskIdSources.items = <<>>
                    THEN DEFAULT_VERIFY_CONFIG.taskIdSources
                    ELSE merged.taskIdSources
              [] k = "commands" -> RepoCommands
              [] OTHER -> merged[k]]

Normalized == "gates" \in DOMAIN effective

GatesOf(verify) == IF "gates" \in DOMAIN verify THEN verify.gates ELSE <<>>

\* The gate entries written so far, over all packs and the repo block.
RECURSIVE GatesWritten(_)
GatesWritten(packs) ==
    IF packs = <<>> THEN 0 ELSE Len(GatesOf(Head(packs))) + GatesWritten(Tail(packs))

\* Writing the configuration before verify runs: a pack is listed, ...
AddPack ==
    /\ ~Normalized
    /\ Len(packFiles) < MaxPacks
    /\ packFiles' = Append(packFiles, EmptyObject)
    /\ UNCHANGED <<repoVerify, effective, reflectVars, scoreVars, runVars>>
    /\ UNCHANGED sessionVars

\* ... a gate entry is written to a pack (its gates array begins empty), ...
WritePackGates ==
    /\ ~Normalized
    /\ \E i \in DOMAIN packFiles :
          \/ /\ "gates" \notin DOMAIN packFiles[i]
             /\ packFiles' = [packFiles EXCEPT ![i] = [gates |-> <<>>]]
          \/ /\ "gates" \in DOMAIN packFiles[i]
             /\ GatesWritten(packFiles) + Len(GatesOf(repoVerify)) < MaxGates
             /\ \E g \in GateUniverse :
                   packFiles' = [packFiles EXCEPT ![i] = [gates |-> Append(packFiles[i].gates, g)]]
    /\ UNCHANGED <<repoVerify, effective, reflectVars, scoreVars, runVars>>
    /\ UNCHANGED sessionVars

\* ... or to the repo's verify block.
WriteRepoGates ==
    /\ ~Normalized
    /\ \/ /\ "gates" \notin DOMAIN repoVerify
          /\ repoVerify' = [gates |-> <<>>]
       \/ /\ "gates" \in DOMAIN repoVerify
          /\ GatesWritten(packFiles) + Len(GatesOf(repoVerify)) < MaxGates
          /\ \E g \in GateUniverse :
                repoVerify' = [gates |-> Append(repoVerify.gates, g)]
    /\ UNCHANGED <<packFiles, effective, reflectVars, scoreVars, runVars>>
    /\ UNCHANGED sessionVars

\* runVerify's call of normalizeVerifyConfig.
Normalize ==
    /\ ~Normalized
    /\ effective' = NormalizeVerifyConfig(packFiles, repoVerify)
    /\ UNCHANGED <<packFiles, repoVerify, reflectVars, scoreVars, runVars>>
    /\ UNCHANGED sessionVars

InitMerge ==
    /\ IdleMerge
    /\ IdleReflect
    /\ IdleScore
    /\ IdleRun

NextMerge == AddPack \/ WritePackGates \/ WriteRepoGates \/ Normalize
SpecMerge == InitMerge /\ [][NextMerge]_vars

(***************************************************************************)
(* Verify run: task ids.                                                   *)
(*                                                                         *)
(* A text scanned for task ids (the --task-id value, the environment       *)
(* variable, the branch name) is held as the sequence of the matches of    *)
(* the task id pattern in it, in text order, repeats included; the empty   *)
(* sequence is also the text that is missing or empty.                     *)
(***************************************************************************)
\* [...new Set(list)]: each value once, at its first place.
RECURSIVE Unique(_)
Unique(list) ==
    IF list = <<>> THEN <<>>
    ELSE LET rest == Unique(SubSeq(list, 1, Len(list) - 1))
             last == list[Len(list)]
         IN  IF \E i \in DOMAIN rest : rest[i] = last THEN rest ELSE Append(rest, last)

CollectTaskIdsFromText(input) == Unique(input)

\* new Set(verifyConfig.taskIdSources ?? [])
SourceSet(verifyConfig) ==
    {verifyConfig.taskIdSources.items[i] : i \in DOMAIN verifyConfig.taskIdSources.items}

\* The sources whose text resolveTaskIds reads: the names it tests with
\* sources.has().
SourcesConsulted(verifyConfig) == SourceSet(verifyConfig) \cap {"cli", "env", "branch"}

ResolveTaskIds(verifyConfig, e) ==
    LET sources == SourceSet(verifyConfig)
        fromCli == IF "cli" \in sources /\ e.taskId # <<>>
                   THEN CollectTaskIdsFromText(e.taskId) ELSE <<>>
        fromEnv == IF "env" \in sources THEN CollectTaskIdsFromText(e.envVar) ELSE <<>>
        fromBranch == IF "branch" \in sources THEN CollectTaskIdsFromText(e.branch) ELSE <<>>
    IN  Unique(fromCli \o fromEnv \o fromBranch)

\* loadWaivers on a file that parses: no file gives no waivers, an array is
\* the list, an object gives its waivers array.
LoadWaivers(file) ==
    IF file.kind = "absent" THEN <<>> ELSE file.waivers

\* loadWaivers throws on a file that is neither an array nor an object with a
\* waivers array.
WaiversFileMalformed(file) == file.kind = "malformed"

\* runVerify up to its gate loop: the effective configuration, the disabled
\* return, the task ids, the waivers.  An exception of loadWaivers leaves
\* runVerify and main's catch exits with 1.
VerifyStart ==
    /\ pc = "idle"
    /\ IF NormalizeConfigThrows(userConfig) \/ LoadPolicyPackThrows(userConfig)
       THEN /\ pc' = "aborted"
            /\ exitCode' = 1
            /\ UNCHANGED <<effective, taskIds, waivers>>
       ELSE /\ effective' = NormalizeVerifyConfig(packFiles, repoVerify)
            /\ IF ~effective'.enabled
               THEN /\ pc' = "disabled"
                    /\ UNCHANGED <<taskIds, waivers, exitCode>>
               ELSE /\ taskIds' = ResolveTaskIds(effective', env)
                    /\ IF WaiversFileMalformed(env.waiversFile)
                       THEN /\ pc' = "aborted"
                            /\ exitCode' = 1
                            /\ UNCHANGED waivers
                       ELSE /\ pc' = "gates"
                            /\ waivers' = LoadWaivers(env.waiversFile)
                            /\ UNCHANGED exitCode
    /\ UNCHANGED <<packFiles, repoVerify, env, gateIndex, evaluated, lookups, gateResults,
                   verification, reflectVars, scoreVars, sessionVars>>

(***************************************************************************)
(* Verify run: waivers.                                                    *)
(***************************************************************************)
\* null: findMatchingWaiver's "no waiver", and a waivers entry that is no object.
Null == [null |-> TRUE]

\* new Date(expiresAt).getTime() of the timestamps the waivers carry; a string
\* outside the domain does not parse (NaN).
DateTimes == [t \in {"2020-01-01T00:00:00Z", "2024-01-01T00:00:00Z", "2999-01-01T00:00:00Z"} |->
                IF t = "2020-01-01T00:00:00Z" THEN 10
                ELSE IF t = "2024-01-01T00:00:00Z" THEN 20 ELSE 30]

\* Date.now() during the run.
DateNow == 20

GateMatch(waiver, gateResult) ==
    /\ "gateId" \in DOMAIN waiver
    /\ (waiver.gateId = gateResult.id \/ waiver.gateId = "*")

TaskIdMatch(waiver, ids) ==
    \/ "taskId" \notin DOMAIN waiver
    \/ waiver.taskId = ""
    \/ waiver.taskId = "*"
    \/ ids = <<>>
    \/ \E i \in DOMAIN ids : ids[i] = waiver.taskId

\* Mutant: no waiver ever expires.
ExpiredNever(waiver) == FALSE

\* if (waiver.expiresAt) { ... Date.now() > expiry.getTime() ... continue }
Expired(waiver) ==
    /\ "expiresAt" \in DOMAIN waiver
    /\ waiver.expiresAt # ""
    /\ waiver.expiresAt \in DOMAIN DateTimes
    /\ DateNow > DateTimes[waiver.expiresAt]

\* Mutant: the scan runs from the end of the file, so the last match wins.
RECURSIVE FindMatchingWaiverLast(_, _, _)
FindMatchingWaiverLast(list, gateResult, ids) ==
    IF list = <<>> THEN Null
    ELSE LET waiver == list[Len(list)]
         IN  IF /\ waiver # Null
                /\ GateMatch(waiver, gateResult)
                /\ TaskIdMatch(waiver, ids)
                /\ ~Expired(waiver)
             THEN waiver
             ELSE FindMatchingWaiverLast(SubSeq(list, 1, Len(list) - 1), gateResult, ids)

RECURSIVE FindMatchingWaiver(_, _, _)
FindMatchingWaiver(list, gateResult, ids) ==
    IF list = <<>> THEN Null
    ELSE LET waiver == Head(list)
         IN  IF waiver = Null THEN FindMatchingWaiver(Tail(list), gateResult, ids)
             ELSE IF ~GateMatch(waiver, gateResult)
                  THEN FindMatchingWaiver(Tail(list), gateResult, ids)
             ELSE IF ~TaskIdMatch(waiver, ids)
                  THEN FindMatchingWaiver(Tail(list), gateResult, ids)
             ELSE IF Expired(waiver)
                  THEN FindMatchingWaiver(Tail(list), gateResult, ids)
             ELSE waiver

(***************************************************************************)
(* Verify run: one gate.                                                   *)
(*                                                                         *)
(* What a gate finds when it runs is drawn per evaluation: the exit code   *)
(* of its command, whether its file (the regex target, the schema file)    *)
(* exists, whether the schema file parses, the pattern's match count, and  *)
(* the task ids whose file (the checked path, the data file) is missing    *)
(* or invalid.                                                             *)
(***************************************************************************)
GateTypes == {"command", "file_exists", "regex", "json_schema", "custom_script"}

\* Patterns new RegExp() rejects.
InvalidPatterns == {"("}

Required(gate) == ~("required" \in DOMAIN gate /\ gate.required = FALSE)
ForEachTaskId(gate) == "forEachTaskId" \in DOMAIN gate /\ gate.forEachTaskId
\* Mutant: enabled is not read.
DisabledNever(gate) == FALSE

Disabled(gate) == "enabled" \in DOMAIN gate /\ gate.enabled = FALSE
HasType(gate) == "type" \in DOMAIN gate /\ gate.type # ""

\* runVerify's context, as far as gates read it.
Context(ids, verifyConfig) ==
    [taskId |-> IF ids = <<>> THEN "" ELSE ids[1],
     taskIds |-> ids,
     commands |-> verifyConfig.commands]

\* Mutant: forEachTaskId is not read.
TargetTaskIdsPrimary(gate, context) == <<context.taskId>>

TargetTaskIds(gate, context) ==
    IF ForEachTaskId(gate) THEN context.taskIds ELSE <<context.taskId>>

\* targetTaskIds.length > 0 ? targetTaskIds : [""]
LoopTaskIds(gate, context) ==
    IF TargetTaskIds(gate, context) # <<>> THEN TargetTaskIds(gate, context) ELSE <<"">>

\* The command a ${commands.<name>} template names.
CommandReferences ==
    [t \in {"${commands.typecheck}", "${commands.lint}", "${commands.test}",
            "${commands.build}"} |->
        CASE t = "${commands.typecheck}" -> "typecheck"
          [] t = "${commands.lint}" -> "lint"
          [] t = "${commands.test}" -> "test"
          [] OTHER -> "build"]

\* interpolateTemplate of a command template: ${commands.<name>} becomes the
\* configured command; any other template here carries ${taskId}, and is held
\* with the task id put in its place.
InterpolateTemplate(template, context) ==
    IF template \in DOMAIN CommandReferences
    THEN [text |-> context.commands[CommandReferences[template]], taskId |-> ""]
    ELSE [text |-> template, taskId |-> context.taskId]

\* taskId || null
TaskIdOrNull(taskId) == IF taskId = "" THEN "null" ELSE taskId

GateResult(gate, status, message) ==
    [id |-> gate.id, type |-> gate.type, required |-> Required(gate),
     status |-> status, message |-> message, checks |-> <<>>,
     command |-> [text |-> "", taskId |-> ""]]

\* The checks array of a file_exists or json_schema result: one entry per
\* task id of the loop, ok where the file exists (is valid).
Checks(gate, context, found) ==
    LET ids == LoopTaskIds(gate, context)
    IN  [i \in DOMAIN ids |-> [taskId |-> TaskIdOrNull(ids[i]), ok |-> ids[i] \notin found.bad]]

AllOk(checks) == \A i \in DOMAIN checks : checks[i].ok

\* evaluateVerifyGate's last return.
EvaluateUnknownType(gate) == GateResult(gate, "fail", "unsupported gate type")

\* The file_exists branch; a gate without path (and paths) checks nothing.
EvaluateFileExists(gate, context, found) ==
    LET checks == IF "path" \in DOMAIN gate THEN Checks(gate, context, found) ELSE <<>>
    IN  [GateResult(gate, IF AllOk(checks) THEN "pass" ELSE "fail",
                    IF AllOk(checks) THEN "all files exist" ELSE "missing files")
            EXCEPT !.checks = checks]

\* Mutant: the catch reports the gate as passed.
CaughtAsPass(gate, message) == GateResult(gate, "pass", message)

\* evaluateVerifyGate's catch: a fail result that carries the error's message.
Caught(gate, message) == GateResult(gate, "fail", message)

\* evaluateVerifyGate.  Its try block throws in spawnSync without a command
\* string, in new RegExp on an invalid pattern and in JSON.parse of the schema
\* file.
EvaluateVerifyGate(gate, context, found) ==
    CASE gate.type \in {"command", "custom_script"} ->
            IF "command" \notin DOMAIN gate
            THEN Caught(gate, "error: The \"file\" argument must be of type string")
            ELSE [GateResult(gate, IF found.exitCode = 0 THEN "pass" ELSE "fail",
                             IF found.exitCode = 0 THEN "command passed" ELSE "command failed")
                    EXCEPT !.command = InterpolateTemplate(gate.command, context)]
      [] gate.type = "file_exists" -> EvaluateFileExists(gate, context, found)
      [] gate.type = "regex" ->
            IF ~found.exists THEN GateResult(gate, "fail", "file not found")
            ELSE IF "pattern" \in DOMAIN gate /\ gate.pattern \in InvalidPatterns
                 THEN Caught(gate, "error: Invalid regular expression")
            ELSE IF found.matchCount >= 1
                 THEN GateResult(gate, "pass", "pattern matched")
            ELSE GateResult(gate, "fail", "pattern matched, expected more")
      [] gate.type = "json_schema" ->
            IF ~found.exists THEN GateResult(gate, "fail", "schema file not found")
            ELSE IF ~found.parses
                 THEN Caught(gate, "error: Unexpected token in JSON")
            ELSE LET checks == Checks(gate, context, found)
                 IN  [GateResult(gate, IF AllOk(checks) THEN "pass" ELSE "fail",
                                 IF AllOk(checks) THEN "schema validation passed"
                                 ELSE "schema validation failed")
                        EXCEPT !.checks = checks]
      [] OTHER -> EvaluateUnknownType(gate)

\* What the evaluation of a gate may find.
Found(status, exists, parses, matchCount, bad) ==
    [exitCode |-> status, exists |-> exists, parses |-> parses,
     matchCount |-> matchCount, bad |-> bad]

LoopTaskIdSet(gate, context) ==
    {LoopTaskIds(gate, context)[i] : i \in DOMAIN LoopTaskIds(gate, context)}

Findings(gate, context) ==
    CASE gate.type \in {"command", "custom_script"} /\ "command" \in DOMAIN gate ->
            {Found(c, TRUE, TRUE, 0, {}) : c \in 0..1}
      [] gate.type = "file_exists" /\ "path" \in DOMAIN gate ->
            {Found(0, TRUE, TRUE, 0, bad) : bad \in SUBSET LoopTaskIdSet(gate, context)}
      [] gate.type = "regex" ->
            {Found(0, FALSE, TRUE, 0, {})} \cup {Found(0, TRUE, TRUE, n, {}) : n \in 0..1}
      [] gate.type = "json_schema" ->
            {Found(0, FALSE, TRUE, 0, {}), Found(0, TRUE, FALSE, 0, {})}
            \cup {Found(0, TRUE, TRUE, 0, bad) : bad \in SUBSET LoopTaskIdSet(gate, context)}
      [] OTHER -> {Found(0, TRUE, TRUE, 0, {})}

\* Mutant: the status is rewritten, the waiver is not attached.
WaivedWithoutRecord(result, waiver) == [result EXCEPT !.status = "waived"]

\* The entry runVerify pushes for a failed result that a waiver matches:
\* { ...result, status: "waived", waiver: {...} }
Waived(result, waiver) ==
    [k \in DOMAIN result \cup {"waiver"} |->
        IF k = "status" THEN "waived"
        ELSE IF k = "waiver" THEN waiver
        ELSE result[k]]

\* One pass of runVerify's gate loop.
EvaluateGate ==
    /\ pc = "gates"
    /\ gateIndex <= Len(effective.gates)
    /\ gateIndex' = gateIndex + 1
    /\ LET gate == effective.gates[gateIndex]
       IN  IF ~HasId(gate) \/ ~HasType(gate) \/ Disabled(gate)
           THEN UNCHANGED <<evaluated, lookups, gateResults>>
           ELSE \E found \in Findings(gate, Context(taskIds, effective)) :
                  LET result == EvaluateVerifyGate(gate, Context(taskIds, effective), found)
                      waiver == FindMatchingWaiver(waivers, result, taskIds)
                  IN  /\ evaluated' = Append(evaluated, result)
                      /\ IF result.status = "fail"
                         THEN /\ lookups' = Append(lookups, result.id)
                              /\ gateResults' =
                                    Append(gateResults,
                                           IF waiver # Null THEN Waived(result, waiver)
                                           ELSE result)
                         ELSE /\ gateResults' = Append(gateResults, result)
                              /\ UNCHANGED lookups
    /\ UNCHANGED <<packFiles, repoVerify, effective, env, pc, taskIds, waivers,
                   verification, exitCode, reflectVars, scoreVars, sessionVars>>

CountStatus(results, status) ==
    Cardinality({i \in DOMAIN results : results[i].status = status})

TaskIdFailure(verifyConfig, ids) == verifyConfig.requiredTaskEvidence /\ ids = <<>>

FailedRequiredGates(results) ==
    SelectSeq(results, LAMBDA r : r.required /\ r.status = "fail")

\* Mutant: any failed gate fails the run, required or not.
FailedAnyGate(verifyConfig, ids, results) ==
    TaskIdFailure(verifyConfig, ids) \/ CountStatus(results, "fail") > 0

\* const failed = taskIdFailure || failedRequiredGates.length > 0
Failed(verifyConfig, ids, results) ==
    TaskIdFailure(verifyConfig, ids) \/ Len(FailedRequiredGates(results)) > 0

\* Mutant: the run ends without writing verification.json.
VerificationNotWritten(verifyConfig, ids, results) == [written |-> FALSE]

\* The verification object runVerify writes to verification.json.
Verification(verifyConfig, ids, results) ==
    [written |-> TRUE,
     taskIds |-> ids,
     policyPacks |-> verifyConfig.loadedPolicyPacks,
     missingTaskId |-> TaskIdFailure(verifyConfig, ids),
     gateCounts |-> [total |-> Len(results),
                     passed |-> CountStatus(results, "pass"),
                     failed |-> CountStatus(results, "fail"),
                     waived |-> CountStatus(results, "waived")],
     requiredGateFailures |-> Len(FailedRequiredGates(results)),
     gates |-> results]

\* runVerify after the loop: verification.json and the exit code.
VerifyFinish ==
    /\ pc = "gates"
    /\ gateIndex > Len(effective.gates)
    /\ verification' = Verification(effective, taskIds, gateResults)
    /\ exitCode' = IF Failed(effective, taskIds, gateResults) THEN 1 ELSE exitCode
    /\ pc' = "done"
    /\ UNCHANGED <<packFiles, repoVerify, effective, env, gateIndex, taskIds, waivers,
                   evaluated, lookups, gateResults, reflectVars, scoreVars, sessionVars>>

(***************************************************************************)
(* Verify run: the configurations and surroundings it is run in.           *)
(***************************************************************************)
\* { ...object, [key]: value }
With(object, key, value) ==
    [k \in DOMAIN object \cup {key} |-> IF k = key THEN value ELSE object[k]]

\* All lists of at most n members of a set.
ListsUpTo(S, n) == UNION {[1..m -> S] : m \in 0..n}

\* Values a configuration gives taskIdSources: empty, one known source, two
\* known sources, a name resolveTaskIds does not know, and a string.
TaskIdSourceValues ==
    {JsonArray(<<>>), JsonArray(<<"cli">>), JsonArray(<<"branch", "env">>),
     JsonArray(<<"none">>), JsonString("cli")}

\* A commands object a pack or the verify block may carry.
PackCommands ==
    [typecheck |-> "true", lint |-> "true", test |-> "true", build |-> "true"]

\* Verify objects of packs that set scalars.
PackScalars ==
    {EmptyObject, [commands |-> PackCommands],
     [commands |-> PackCommands, taskIdSources |-> JsonArray(<<"cli">>)]}
    \cup {[taskIdSources |-> v] : v \in TaskIdSourceValues}

BuildGate == [id |-> "build", type |-> "command", command |-> "${commands.build}"]
ReadmeGate ==
    [id |-> "readme", type |-> "file_exists", path |-> "README.md", required |-> FALSE]

\* Verify blocks of the repo config that set scalars; each lists the build gate.
RepoScalars ==
    LET enabled == {[gates |-> <<BuildGate>>], [gates |-> <<BuildGate>>, enabled |-> TRUE]}
        sourced == enabled \cup {With(r, "taskIdSources", v) :
                                    r \in enabled, v \in TaskIdSourceValues}
    IN  sourced \cup {With(r, "commands", PackCommands) : r \in sourced}

\* What the three task id sources hold.
SourceTexts ==
    {[taskId |-> c, envVar |-> e, branch |-> b, waiversFile |-> [kind |-> "absent"]] :
        c \in {<<>>, <<"ABC-1">>}, e \in {<<>>, <<"ABC-2">>},
        b \in {<<>>, <<"ABC-2", "ABC-1", "ABC-2">>}}

\* Gates a verify block may list: every type, with and without required,
\* enabled and forEachTaskId, a command gate without command, a regex gate
\* with an invalid pattern, a type the evaluator does not know and a gate
\* without type.
GateShapes ==
    {BuildGate,
     [id |-> "lint", type |-> "command", command |-> "${commands.lint}", required |-> FALSE],
     [id |-> "audit", type |-> "custom_script", command |-> "scripts/audit ${taskId}",
      forEachTaskId |-> TRUE],
     [id |-> "legacy", type |-> "command", command |-> "${commands.test}", enabled |-> FALSE],
     [id |-> "evidence", type |-> "file_exists", path |-> "evidence/${taskId}.md",
      forEachTaskId |-> TRUE],
     ReadmeGate,
     [id |-> "done", type |-> "json_schema", forEachTaskId |-> TRUE],
     [id |-> "changelog", type |-> "regex", pattern |-> "TODO"],
     [id |-> "pattern", type |-> "regex", pattern |-> "("],
     [id |-> "nocommand", type |-> "command"],
     [id |-> "shell", type |-> "shell"],
     [id |-> "typeless", required |-> TRUE]}

\* Waivers files of the gate runs.
GateRunWaiversFiles ==
    {[kind |-> "absent"],
     [kind |-> "array", waivers |-> <<[gateId |-> "*"]>>],
     [kind |-> "object", waivers |-> <<[gateId |-> "build", taskId |-> "ABC-1"],
                                       [gateId |-> "readme"]>>],
     [kind |-> "malformed"]}

\* Surroundings of the gate runs: no, one or two task ids to resolve.
GateRunEnvironments ==
    {[taskId |-> c, envVar |-> <<>>, branch |-> b, waiversFile |-> f] :
        c \in {<<>>, <<"ABC-1">>}, b \in {<<>>, <<"ABC-2">>}, f \in GateRunWaiversFiles}

\* Entries a waivers file may hold.
WaiverUniverse ==
    {Null,
     [gateId |-> "*"],
     [gateId |-> "build"],
     [gateId |-> "build", taskId |-> "ABC-1"],
     [gateId |-> "build", taskId |-> "ABC-9"],
     [gateId |-> "build", taskId |-> "*"],
     [gateId |-> "build", taskId |-> ""],
     [gateId |-> "build", expiresAt |-> "2020-01-01T00:00:00Z"],
     [gateId |-> "build", expiresAt |-> "2024-01-01T00:00:00Z"],
     [gateId |-> "build", expiresAt |-> "2999-01-01T00:00:00Z"],
     [gateId |-> "build", expiresAt |-> "soon"],
     [gateId |-> "readme"],
     [taskId |-> "ABC-1"]}

IdleVerify ==
    /\ NotStarted
    /\ effective = EmptyObject
    /\ IdleReflect
    /\ IdleScore
    /\ IdleSession

NextVerify == VerifyStart \/ EvaluateGate \/ VerifyFinish

\* Verify runs over the scalars of packs and repo and the task id sources.
InitSources ==
    /\ packFiles \in ListsUpTo(PackScalars, MaxPacks)
    /\ repoVerify \in RepoScalars
    /\ env \in SourceTexts
    /\ IdleVerify
SpecSources == InitSources /\ [][NextVerify]_vars

\* Verify runs over the gates.
InitGates ==
    /\ packFiles = <<>>
    /\ \E gates \in ListsUpTo(GateShapes, MaxVerifyGates), evidence \in BOOLEAN :
          repoVerify = [enabled |-> TRUE, requiredTaskEvidence |-> evidence, gates |-> gates]
    /\ env \in GateRunEnvironments
    /\ IdleVerify
SpecGates == InitGates /\ [][NextVerify]_vars

\* Verify runs over the waivers file.
InitWaivers ==
    /\ packFiles = <<>>
    /\ repoVerify = [enabled |-> TRUE, gates |-> <<BuildGate, ReadmeGate>>]
    /\ \E list \in ListsUpTo(WaiverUniverse, MaxWaivers), kind \in {"array", "object"},
          c \in {<<>>, <<"ABC-1">>, <<"ABC-2">>} :
          env = [taskId |-> c, envVar |-> <<>>, branch |-> <<>>,
                 waiversFile |-> [kind |-> kind, waivers |-> list]]
    /\ IdleVerify
SpecWaivers == InitWaivers /\ [][NextVerify]_vars

(***************************************************************************)
(* Invocations step by step: a reflect run check by check, a verify run    *)
(* gate by gate, one process at a time, each of which may be stopped.      *)
(***************************************************************************)
\* Mutant: the files are written once the first check has completed.
ChecksCompletedAfterFirst(results) == Len(results) >= 1

\* config.commands.map(runCommand) has returned.
ChecksCompleted(results) == Len(results) = Len(REQUIRED_COMMAND_NAMES)

\* runReflect up to its checks: normalizeConfig.  An exception leaves
\* runReflect, and main's catch ends the process.
ReflectStart ==
    /\ rpc = "idle"
    /\ pc = "idle"
    /\ rpc' = IF NormalizeConfigThrows(userConfig) THEN "aborted" ELSE "checks"
    /\ commandResults' = <<>>
    /\ UNCHANGED <<userConfig, actionItems, loopVars, schemaVars>>
    /\ UNCHANGED <<reflectVars, scoreVars, mergeVars, runVars>>

\* runCommand of the next check command.
RunCheck ==
    /\ rpc = "checks"
    /\ ~ChecksCompleted(commandResults)
    /\ \E code \in {0, 1} :
          commandResults' =
              Append(commandResults,
                     [name |-> REQUIRED_COMMAND_NAMES[Len(commandResults) + 1],
                      exitCode |-> code])
    /\ UNCHANGED <<rpc, userConfig, actionItems, loopVars, schemaVars>>
    /\ UNCHANGED <<reflectVars, scoreVars, mergeVars, runVars>>

\* runReflect after its checks: what they printed is parsed and the files
\* are written.
ReflectFinish ==
    /\ rpc = "checks"
    /\ ChecksCompleted(commandResults)
    /\ now < MaxStepRuns
    /\ \E pct \in {5000, 9200}, seen \in 0..1 :
          RunReflect(pct, ExpectedPackages, ExitCodeOf(commandResults, "test"),
                     [p \in PatternKeys |-> IF p = PatternRules[1] THEN seen ELSE 0])
    /\ rpc' = "done"
    /\ UNCHANGED <<commandResults, loopVars>>

\* The process is killed while its checks or its gates are under way.
Stop ==
    /\ \/ rpc = "checks" /\ rpc' = "stopped" /\ UNCHANGED pc
       \/ pc = "gates" /\ pc' = "stopped" /\ UNCHANGED rpc
    /\ UNCHANGED <<commandResults, userConfig, actionItems, loopVars, schemaVars>>
    /\ UNCHANGED <<reflectVars, scoreVars, mergeVars>>
    /\ UNCHANGED <<env, gateIndex, taskIds, waivers, evaluated, lookups, gateResults,
                   verification, exitCode>>

\* Configurations and waivers files an invocation may find: valid, the build
\* command missing, no package directory, a policy pack that resolves to no
\* file; no waivers file, one waiver, a file that is neither array nor object.
UserConfigs ==
    {ValidConfig,
     [ValidConfig EXCEPT !.commands = {"typecheck", "lint", "test"}],
     [ValidConfig EXCEPT !.packageDirs = 0],
     [ValidConfig EXCEPT !.packsFound = FALSE]}

StepWaiversFiles ==
    {[kind |-> "absent"],
     [kind |-> "array", waivers |-> <<[gateId |-> "build"]>>],
     [kind |-> "malformed"]}

\* The process has ended; the next one starts with the files as they are and
\* the configuration and the waivers file as the user left them.
NextInvocation ==
    /\ rpc \in {"done", "aborted", "stopped"} \/ pc \in {"done", "disabled", "aborted", "stopped"}
    /\ rpc' = "idle"
    /\ commandResults' = <<>>
    /\ pc' = "idle"
    /\ gateIndex' = 1
    /\ taskIds' = <<>>
    /\ waivers' = <<>>
    /\ evaluated' = <<>>
    /\ lookups' = <<>>
    /\ gateResults' = <<>>
    /\ exitCode' = 0
    /\ effective' = EmptyObject
    /\ userConfig' \in UserConfigs
    /\ \E file \in StepWaiversFiles : env' = [env EXCEPT !.waiversFile = file]
    /\ UNCHANGED <<verification, packFiles, repoVerify, actionItems, loopVars, schemaVars>>
    /\ UNCHANGED <<reflectVars, scoreVars>>

InitSteps ==
    /\ packFiles = <<>>
    /\ \E enabled \in BOOLEAN :
          repoVerify = [enabled |-> enabled, requiredTaskEvidence |-> FALSE,
                        gates |-> <<BuildGate, ReadmeGate>>]
    /\ effective = EmptyObject
    /\ env = [taskId |-> <<>>, envVar |-> <<>>, branch |-> <<>>,
              waiversFile |-> [kind |-> "absent"]]
    /\ NotStarted
    /\ IdleSession
    /\ IdleReflect
    /\ IdleScore

NextSteps ==
    \/ ReflectStart
    \/ RunCheck
    \/ ReflectFinish
    \/ (rpc = "idle" /\ VerifyStart)
    \/ EvaluateGate
    \/ VerifyFinish
    \/ Stop
    \/ NextInvocation
SpecSteps == InitSteps /\ [][NextSteps]_vars

(***************************************************************************)
(* The loop: ralph-loop start, pause, status and step.                     *)
(***************************************************************************)
\* Mutant: a step never finds the loop paused.
PausedNever(file) == FALSE

\* (loadJson(controlPath) ?? { paused: false }).paused
Paused(file) == file.exists /\ file.paused

RalphPause ==
    /\ ~NormalizeConfigThrows(userConfig)
    /\ control' = [exists |-> TRUE, paused |-> TRUE]
    /\ reported' = [action |-> "pause", paused |-> TRUE]
    /\ UNCHANGED <<loopState, userConfig, stepVars, actionItems, schemaVars>>
    /\ UNCHANGED <<reflectVars, scoreVars, mergeVars, runVars>>

RalphStart ==
    /\ ~NormalizeConfigThrows(userConfig)
    /\ control' = [exists |-> TRUE, paused |-> FALSE]
    /\ reported' = [action |-> "start", paused |-> FALSE]
    /\ UNCHANGED <<loopState, userConfig, stepVars, actionItems, schemaVars>>
    /\ UNCHANGED <<reflectVars, scoreVars, mergeVars, runVars>>

RalphStatus ==
    /\ ~NormalizeConfigThrows(userConfig)
    /\ reported' = [action |-> "status", paused |-> Paused(control)]
    /\ UNCHANGED <<control, loopState, userConfig, stepVars, actionItems, schemaVars>>
    /\ UNCHANGED <<reflectVars, scoreVars, mergeVars, runVars>>

\* ralph-loop step: nothing but the message when the loop is paused; else one
\* reflect run, then ralph-loop.json.
RalphStep ==
    /\ ~NormalizeConfigThrows(userConfig)
    /\ IF Paused(control)
       THEN /\ reported' = [action |-> "step", paused |-> TRUE]
            /\ UNCHANGED <<control, loopState, userConfig, stepVars, actionItems, schemaVars>>
            /\ UNCHANGED <<reflectVars, scoreVars, mergeVars, runVars>>
       ELSE /\ \E pct \in {5000, 9200}, testExitCode \in {0, 1}, seen \in 0..1 :
                  /\ RunReflect(pct, ExpectedPackages, testExitCode,
                                [p \in PatternKeys |-> IF p = PatternRules[1] THEN seen ELSE 0])
                  /\ commandResults' = CommandResults(<<0, 0, testExitCode, 0>>)
            /\ rpc' = "done"
            /\ loopState' = [exists |-> TRUE, updatedAt |-> now', paused |-> FALSE]
            /\ reported' = [action |-> "step", paused |-> FALSE]
            /\ UNCHANGED control

InitLoop ==
    /\ IdleRun
    /\ IdleReflect
    /\ IdleScore
    /\ IdleMerge

NextLoop == RalphPause \/ RalphStart \/ RalphStatus \/ RalphStep
SpecLoop == InitLoop /\ [][NextLoop]_vars

(***************************************************************************)
(* Action items, and the run that is scored and then verified.             *)
(***************************************************************************)
\* value.toFixed(2) of a non-negative value held in hundredths.
ToFixed2(hundredths) ==
    ToString(hundredths \div 100) \o "."
    \o ToString((hundredths % 100) \div 10) \o ToString(hundredths % 10)

BuildUnstable == "Build is unstable; fix build failures before enabling automation."
GatesPassed ==
    "Quality gates passed. Promote one repeated issue pattern into prevention rules this session."

\* Mutant: an unstable build adds no action item.
BuildItemsNone(m) == <<>>

BuildItems(m) == IF m.buildExitCode # 0 THEN <<BuildUnstable>> ELSE <<>>

\* Mutant: a run with nothing to fix is left without action item.
WhenEmptyNothing(actions) == actions

\* if (actions.length === 0) actions.push("Quality gates passed. ...")
WhenEmpty(actions) == IF actions = <<>> THEN <<GatesPassed>> ELSE actions

BuildActionItems(m) ==
    LET types == IF m.typeErrors > 0
                 THEN <<"Fix " \o ToString(m.typeErrors) \o " TypeScript errors before merge.">>
                 ELSE <<>>
        lint == IF m.lintViolations > 0
                THEN <<"Resolve " \o ToString(m.lintViolations) \o " lint violations.">>
                ELSE <<>>
        tests == IF m.testsFailed > 0
                 THEN <<"Address " \o ToString(m.testsFailed) \o " failing tests.">>
                 ELSE <<>>
        coverage ==
            IF ~m.coverageQualified
            THEN <<"Coverage was not fully collected across all packages; rerun full test coverage.">>
            ELSE IF m.coveragePct < m.coverageFloor
            THEN <<"Coverage " \o ToFixed2(m.coveragePct) \o "% is below floor "
                   \o ToFixed2(m.coverageFloor) \o "%; add tests before shipping.">>
            ELSE <<>>
    IN  WhenEmpty(types \o lint \o tests \o coverage \o BuildItems(m))

\* runReflect's call of buildActionItems on the snapshot it collected.
ListActionItems ==
    /\ ~actionItems.built
    /\ actionItems' = [built |-> TRUE, items |-> BuildActionItems(metrics)]
    /\ UNCHANGED <<userConfig, stepVars, loopVars, schemaVars>>
    /\ UNCHANGED <<reflectVars, scoreVars, mergeVars, runVars>>

\* Snapshots of the runs of the scenarios: each count zero or one, coverage at
\* 88% or 92% over a floor of 0 or 90, qualified or not, the build passing or
\* failing.
ScenarioSnapshots ==
    [typeErrors : 0..1, lintViolations : 0..1, testsPassed : 0..1, testsFailed : 0..1,
     coveragePct : {8800, 9200}, coverageFloor : {0, 9000}, coverageQualified : BOOLEAN,
     buildExitCode : {0, 1}]

\* Waivers files of the scenarios: none, one for another gate, one for the
\* build gate that expired, one for the build gate.
ScenarioWaiversFiles ==
    {[kind |-> "absent"],
     [kind |-> "array", waivers |-> <<[gateId |-> "readme"]>>],
     [kind |-> "array", waivers |-> <<[gateId |-> "build",
                                       expiresAt |-> "2020-01-01T00:00:00Z"]>>],
     [kind |-> "array", waivers |-> <<[gateId |-> "build"]>>]}

\* A run is scored under the default weights and its action items listed;
\* verify is enabled with the one required gate that runs the build command.
InitScenario ==
    /\ metrics \in ScenarioSnapshots
    /\ weights = DefaultWeights
    /\ score = [done |-> FALSE]
    /\ actionItems = [built |-> FALSE]
    /\ packFiles = <<>>
    /\ repoVerify = [enabled |-> TRUE, requiredTaskEvidence |-> FALSE, gates |-> <<BuildGate>>]
    /\ effective = EmptyObject
    /\ \E file \in ScenarioWaiversFiles :
          env = [taskId |-> <<>>, envVar |-> <<>>, branch |-> <<>>, waiversFile |-> file]
    /\ NotStarted
    /\ userConfig = ValidConfig
    /\ commandResults = <<>>
    /\ rpc = "idle"
    /\ IdleLoop
    /\ IdleSchema
    /\ IdleReflect

NextScenario == ComputeScore \/ ListActionItems \/ VerifyStart \/ EvaluateGate \/ VerifyFinish
SpecScenario == InitScenario /\ [][NextScenario]_vars

(***************************************************************************)
(* The structural schema validator.  A JSON value carries its kind: a      *)
(* number is held in tenths (15 is 1.5), a string as its characters, an    *)
(* object as the function from its keys and the order its keys were        *)
(* written in.  A schema is the function from its keywords.                *)
(***************************************************************************)
JNull == [json |-> "null"]
JNumber(tenths) == [json |-> "number", tenths |-> tenths]
JString(chars) == [json |-> "string", chars |-> chars]
JArray(items) == [json |-> "array", items |-> items]

\* Object.keys / Object.entries list the keys of an object in the order they
\* were written; this is the order where none is given.
KeyOrder == <<"a", "b">>
Keys(object) == SelectSeq(KeyOrder, LAMBDA k : k \in DOMAIN object)

\* An object parsed from a text that wrote its keys in the given order.
JObjectWritten(fields, keys) == [json |-> "object", fields |-> fields, keys |-> keys]
JObject(fields) == JObjectWritten(fields, Keys(fields))

RECURSIVE Join(_, _)
Join(texts, separator) ==
    IF texts = <<>> THEN ""
    ELSE IF Len(texts) = 1 THEN texts[1]
    ELSE texts[1] \o separator \o Join(Tail(texts), separator)

RECURSIVE JsonStringify(_)
JsonStringify(value) ==
    CASE value.json = "null" -> "null"
      [] value.json = "number" ->
            IF value.tenths % 10 = 0 THEN ToString(value.tenths \div 10)
            ELSE ToString(value.tenths \div 10) \o "." \o ToString(value.tenths % 10)
      [] value.json = "string" -> "\"" \o Join(value.chars, "") \o "\""
      [] value.json = "array" ->
            "[" \o Join([i \in DOMAIN value.items |-> JsonStringify(value.items[i])], ",") \o "]"
      [] value.json = "object" ->
            LET keys == value.keys
            IN  "{" \o Join([i \in DOMAIN keys |->
                               "\"" \o keys[i] \o "\":" \o JsonStringify(value.fields[keys[i]])],
                            ",") \o "}"

CreateValidationError(path, message) == path \o ": " \o message

\* The references the schemas carry, split at "/" after "#/"; any other
\* reference does not start with "#/".
LocalRefs ==
    [r \in {"#/definitions/name", "#/definitions/missing", "#/definitions/tree",
            "#/definitions/loop"} |->
        CASE r = "#/definitions/name" -> <<"definitions", "name">>
          [] r = "#/definitions/missing" -> <<"definitions", "missing">>
          [] r = "#/definitions/tree" -> <<"definitions", "tree">>
          [] r = "#/definitions/loop" -> <<"definitions", "loop">>]

RECURSIVE WalkSchema(_, _)
WalkSchema(current, parts) ==
    IF parts = <<>> THEN current
    ELSE IF current = Null \/ Head(parts) \notin DOMAIN current THEN Null
    ELSE WalkSchema(current[Head(parts)], Tail(parts))

ResolveSchemaRef(rootSchema, ref) ==
    IF ref \notin DOMAIN LocalRefs THEN Null ELSE WalkSchema(rootSchema, LocalRefs[ref])

\* Array.isArray(data) ? "array" : data === null ? "null" : typeof data
ActualType(value) == value.json

TypeMatches(expectedType, value) ==
    \/ expectedType = ActualType(value)
    \/ expectedType = "number" /\ ActualType(value) = "number"
    \/ expectedType = "integer" /\ ActualType(value) = "number" /\ value.tenths % 10 = 0

\* new RegExp(pattern).test(data) for the valid patterns the schemas carry.
RegExpTest(pattern, chars) ==
    pattern = "^h" => (chars # <<>> /\ Head(chars) = "h")

\* Mutant: minLength is not checked.
MinLengthErrorsNone(node, value, path) == <<>>

MinLengthErrors(node, value, path) ==
    IF "minLength" \in DOMAIN node /\ Len(value.chars) < node.minLength
    THEN <<CreateValidationError(path, "must have minLength " \o ToString(node.minLength))>>
    ELSE <<>>

PatternErrors(node, value, path) ==
    IF "pattern" \notin DOMAIN node \/ node.pattern = "" THEN <<>>
    ELSE IF node.pattern \in InvalidPatterns
         THEN <<CreateValidationError(path, "invalid pattern " \o node.pattern)>>
    ELSE IF ~RegExpTest(node.pattern, value.chars)
         THEN <<CreateValidationError(path, "does not match pattern " \o node.pattern)>>
    ELSE <<>>

\* Mutant: the string constraints stop at the first one violated.
StringErrorsFirstOnly(node, value, path) ==
    IF MinLengthErrors(node, value, path) # <<>> THEN MinLengthErrors(node, value, path)
    ELSE PatternErrors(node, value, path)

\* validateSchemaNode, the block under typeof data === "string".
StringErrors(node, value, path) ==
    MinLengthErrors(node, value, path) \o PatternErrors(node, value, path)

MinItemsErrors(node, value, path) ==
    IF "minItems" \in DOMAIN node /\ Len(value.items) < node.minItems
    THEN <<CreateValidationError(path, "must have minItems " \o ToString(node.minItems))>>
    ELSE <<>>

RequiredErrors(node, value, path) ==
    LET required == IF "required" \in DOMAIN node THEN node.required ELSE <<>>
        missing == SelectSeq(required, LAMBDA key : key \notin DOMAIN value.fields)
    IN  [i \in DOMAIN missing |->
            CreateValidationError(path, "missing required property \"" \o missing[i] \o "\"")]

AdditionalPropertiesErrors(node, value, path) ==
    IF "additionalProperties" \in DOMAIN node /\ node.additionalProperties = FALSE
    THEN LET allowed == IF "properties" \in DOMAIN node THEN DOMAIN node.properties ELSE {}
             unexpected == SelectSeq(value.keys, LAMBDA key : key \notin allowed)
         IN  [i \in DOMAIN unexpected |->
                 CreateValidationError(path, "unexpected property \"" \o unexpected[i] \o "\"")]
    ELSE <<>>

ConstErrors(node, value, path) ==
    IF "const" \in DOMAIN node /\ JsonStringify(value) # JsonStringify(node.const)
    THEN <<CreateValidationError(path, "does not match const value")>>
    ELSE <<>>

EnumErrors(node, value, path) ==
    IF /\ "enum" \in DOMAIN node
       /\ ~\E i \in DOMAIN node.enum : JsonStringify(node.enum[i]) = JsonStringify(value)
    THEN <<CreateValidationError(path, "must be one of: "
              \o Join([i \in DOMAIN node.enum |-> JsonStringify(node.enum[i])], ", "))>>
    ELSE <<>>

TypeErrors(node, value, path) ==
    IF "type" \in DOMAIN node /\ node.type # "" /\ ~TypeMatches(node.type, value)
    THEN <<CreateValidationError(path, "expected type " \o node.type \o ", got "
              \o ActualType(value))>>
    ELSE <<>>

RECURSIVE ValidateSchemaNode(_, _, _, _)
RECURSIVE ValidateAllOf(_, _, _, _)
RECURSIVE ValidateItems(_, _, _, _, _)
RECURSIVE ValidateProperties(_, _, _, _, _)

\* Mutant: every document counts as matching.
MatchesSchemaAlways(node, value, rootSchema) == TRUE

\* matchesSchema
MatchesSchema(node, value, rootSchema) ==
    ValidateSchemaNode(node, value, "$", rootSchema) = <<>>

ValidateAllOf(schemas, value, path, rootSchema) ==
    IF schemas = <<>> THEN <<>>
    ELSE ValidateSchemaNode(Head(schemas), value, path, rootSchema)
         \o ValidateAllOf(Tail(schemas), value, path, rootSchema)

\* data.forEach((item, index) => ...), from the item at the given position on.
ValidateItems(itemSchema, items, position, path, rootSchema) ==
    IF position > Len(items) THEN <<>>
    ELSE ValidateSchemaNode(itemSchema, items[position],
                            path \o "[" \o ToString(position - 1) \o "]", rootSchema)
         \o ValidateItems(itemSchema, items, position + 1, path, rootSchema)

\* for (const [key, propertySchema] of Object.entries(properties)), over the
\* keys still to visit.
ValidateProperties(properties, keys, fields, path, rootSchema) ==
    IF keys = <<>> THEN <<>>
    ELSE (IF Head(keys) \in DOMAIN fields
          THEN ValidateSchemaNode(properties[Head(keys)], fields[Head(keys)],
                                  path \o "." \o Head(keys), rootSchema)
          ELSE <<>>)
         \o ValidateProperties(properties, Tail(keys), fields, path, rootSchema)

ValidateSchemaNode(node, value, path, rootSchema) ==
    IF node = Null THEN <<>>
    ELSE IF "$ref" \in DOMAIN node /\ node["$ref"] # ""
    THEN LET resolved == ResolveSchemaRef(rootSchema, node["$ref"])
         IN  IF resolved = Null
             THEN <<CreateValidationError(path, "unresolved $ref " \o node["$ref"])>>
             ELSE ValidateSchemaNode(resolved, value, path, rootSchema)
    ELSE LET allOf == IF "allOf" \in DOMAIN node
                      THEN ValidateAllOf(node.allOf, value, path, rootSchema) ELSE <<>>
             conditional ==
                 IF /\ "if" \in DOMAIN node
                    /\ "then" \in DOMAIN node
                    /\ MatchesSchema(node["if"], value, rootSchema)
                 THEN ValidateSchemaNode(node["then"], value, path, rootSchema) ELSE <<>>
             typeErrors == TypeErrors(node, value, path)
             strings == IF value.json = "string" THEN StringErrors(node, value, path) ELSE <<>>
             arrays == IF value.json = "array"
                       THEN MinItemsErrors(node, value, path)
                            \o (IF "items" \in DOMAIN node
                                THEN ValidateItems(node.items, value.items, 1, path, rootSchema)
                                ELSE <<>>)
                       ELSE <<>>
             objects == IF value.json = "object"
                        THEN RequiredErrors(node, value, path)
                             \o (IF "properties" \in DOMAIN node
                                 THEN ValidateProperties(node.properties, Keys(node.properties),
                                                         value.fields, path, rootSchema)
                                 ELSE <<>>)
                             \o AdditionalPropertiesErrors(node, value, path)
                        ELSE <<>>
         IN  allOf \o conditional \o ConstErrors(node, value, path)
             \o EnumErrors(node, value, path)
             \o (IF typeErrors # <<>> THEN typeErrors ELSE strings \o arrays \o objects)

ValidateJsonAgainstSchema(rootSchema, value) ==
    ValidateSchemaNode(rootSchema, value, "$", rootSchema)

\* validateSchemaNode's calls never return: a call on a node and a value is
\* reached from inside a call on the same node and the same value (calls
\* holds the pairs of the calls under way), so the recursion repeats until
\* the call stack is exhausted and a RangeError is thrown.
RECURSIVE Overflows(_, _, _, _)
Overflows(node, value, rootSchema, calls) ==
    IF node = Null THEN FALSE
    ELSE IF <<node, value>> \in calls THEN TRUE
    ELSE LET inside == calls \cup {<<node, value>>}
             typed == TypeErrors(node, value, "$") = <<>>
         IN  IF "$ref" \in DOMAIN node /\ node["$ref"] # ""
             THEN LET resolved == ResolveSchemaRef(rootSchema, node["$ref"])
                  IN  resolved # Null /\ Overflows(resolved, value, rootSchema, inside)
             ELSE \/ /\ "allOf" \in DOMAIN node
                     /\ \E i \in DOMAIN node.allOf :
                           Overflows(node.allOf[i], value, rootSchema, inside)
                  \/ /\ "if" \in DOMAIN node
                     /\ "then" \in DOMAIN node
                     /\ \/ Overflows(node["if"], value, rootSchema, inside)
                        \/ /\ MatchesSchema(node["if"], value, rootSchema)
                           /\ Overflows(node["then"], value, rootSchema, inside)
                  \/ /\ typed
                     /\ value.json = "array"
                     /\ "items" \in DOMAIN node
                     /\ \E i \in DOMAIN value.items :
                           Overflows(node.items, value.items[i], rootSchema, {})
                  \/ /\ typed
                     /\ value.json = "object"
                     /\ "properties" \in DOMAIN node
                     /\ \E k \in DOMAIN node.properties \cap DOMAIN value.fields :
                           Overflows(node.properties[k], value.fields[k], rootSchema, {})

\* The json_schema gate's call: the errors of one document against one
\* schema, or the exception that leaves validateJsonAgainstSchema.
Validate ==
    /\ errors = [done |-> FALSE]
    /\ errors' = IF Overflows(schema, data, schema, {})
                 THEN [done |-> FALSE, thrown |-> "RangeError"]
                 ELSE [done |-> TRUE, list |-> ValidateJsonAgainstSchema(schema, data)]
    /\ UNCHANGED <<schema, data, userConfig, stepVars, actionItems, loopVars>>
    /\ UNCHANGED <<reflectVars, scoreVars, mergeVars, runVars>>

\* The schemas and documents the validator is run on.
Hi == JString(<<"h", "i">>)
Ok == JString(<<"o", "k">>)
Hello == JString(<<"h", "e", "l", "l", "o">>)

DataUniverse ==
    {JObject([a |-> Hi]), JObject(EmptyObject), JObject([a |-> Ok]), JObject([a |-> Hello]),
     JObject([a |-> Hello, b |-> JNumber(10)]), JObject([b |-> JNumber(10)]),
     JObject([a |-> JNumber(50)]),
     JObject([a |-> Hi, b |-> JNumber(10)]),
     JObjectWritten([a |-> Hi, b |-> JNumber(10)], <<"b", "a">>),
     JObject([a |-> JObject([a |-> Hi])]),
     Hi, Ok, Hello, JNumber(50), JNumber(15), JNull,
     JArray(<<>>), JArray(<<Hi, Hello>>), JArray(<<Hello, JNumber(10)>>)}

ShortString == [type |-> "string", minLength |-> 3]
NameDefinitions == [name |-> [type |-> "string", minLength |-> 3]]
\* A schema that refers to itself below a property, and one that refers to
\* itself on the spot.
TreeDefinitions ==
    [tree |-> [type |-> "object", properties |-> [a |-> ("$ref" :> "#/definitions/tree")]]]
LoopDefinitions == [loop |-> [allOf |-> <<("$ref" :> "#/definitions/loop")>>]]

SchemaUniverse ==
    {[type |-> "object", required |-> <<"a">>, properties |-> [a |-> ShortString]],
     [type |-> "string", minLength |-> 3, pattern |-> "^h"],
     [type |-> "string", pattern |-> "("],
     [type |-> "string", required |-> <<"a">>],
     [type |-> "object", properties |-> [a |-> ShortString], additionalProperties |-> FALSE],
     [type |-> "array", minItems |-> 3, items |-> ShortString],
     [type |-> "array", required |-> <<"a", "b">>],
     [type |-> "integer"],
     [type |-> "number", enum |-> <<JNumber(10), JNumber(15)>>],
     [const |-> Hello],
     [const |-> JObject([a |-> Hi, b |-> JNumber(10)])],
     [enum |-> <<JNumber(10), JObject([a |-> Hi, b |-> JNumber(10)])>>],
     [enum |-> <<Hi, JNull, JObject([a |-> Hi])>>],
     [allOf |-> <<[required |-> <<"a">>], [required |-> <<"b">>, minLength |-> 3]>>],
     [if |-> [required |-> <<"a">>], then |-> [required |-> <<"b">>]],
     [if |-> [type |-> "string"], then |-> [pattern |-> "^h", minLength |-> 3]],
     ("$ref" :> "#/definitions/name") @@ [definitions |-> NameDefinitions],
     ("$ref" :> "#/definitions/name") @@ [definitions |-> NameDefinitions, type |-> "object",
                                          required |-> <<"a">>],
     ("$ref" :> "#/definitions/missing") @@ [definitions |-> NameDefinitions],
     ("$ref" :> "other.json#/name") @@ [definitions |-> NameDefinitions],
     [properties |-> [a |-> ("$ref" :> "#/definitions/name")], definitions |-> NameDefinitions],
     ("$ref" :> "#/definitions/tree") @@ [definitions |-> TreeDefinitions],
     ("$ref" :> "#/definitions/loop") @@ [definitions |-> LoopDefinitions],
     [properties |-> [a |-> ("$ref" :> "#/definitions/loop")], definitions |-> LoopDefinitions]}

InitSchema ==
    /\ schema \in SchemaUniverse
    /\ data \in DataUniverse
    /\ errors = [done |-> FALSE]
    /\ IdleChecks
    /\ IdleLoop
    /\ IdleReflect
    /\ IdleScore
    /\ IdleMerge
    /\ NoVerifyRun
SpecSchema == InitSchema /\ [][Validate]_vars

(***************************************************************************)
(* Claims about the reflect run.  A step with now' # now is one run.       *)
(***************************************************************************)
StoredRecommendation(file, p) ==
    IF p \in DOMAIN file THEN file[p].recommendation ELSE "none"
StoredCount(file, p) ==
    IF p \in DOMAIN file THEN file[p].count ELSE 0
Promoted(promos, p) ==
    \E i \in DOMAIN promos : promos[i].pattern = p

\* C1: when a qualified run follows a qualified run, the floor it persists is
\* max(floor persisted by the earlier run, max(0, coverage - 2)), so the floor
\* does not decrease over consecutive qualified runs.
C1_QualifiedRunsRatchet ==
    (now > 0 /\ previous.coverageQualified /\ scorecard.coverageQualified)
        => /\ scorecard.coverageFloor =
                Max(previous.coverageFloor, Max(0, scorecard.coveragePct - 200))
           /\ scorecard.coverageFloor >= previous.coverageFloor

\* C1 witness: a qualified run after a qualified run measured 1.5% and kept
\* the floor of 90 the earlier run had set.
C1_Witness ==
    /\ now > 0 /\ previous.coverageQualified /\ scorecard.coverageQualified
    /\ scorecard.coveragePct = 150 /\ previous.coverageFloor = 9000
    /\ scorecard.coverageFloor = 9000

\* C2: a run that is not qualified persists exactly the floor it read (0 when
\* there was no scorecard), whatever it measured and whatever the previous
\* qualification flag was.
C2_UnqualifiedRunKeepsFloor ==
    [][(now' # now /\ ~scorecard'.coverageQualified)
         => scorecard'.coverageFloor =
              (IF scorecard.exists THEN scorecard.coverageFloor ELSE 0)]_vars

\* C2 witness: an unqualified run that measured 92% over the floor of 0 a
\* qualified run had stored, and kept 0.
C2_Witness ==
    /\ now > 1 /\ ~scorecard.coverageQualified /\ previous.coverageQualified
    /\ previous.coverageFloor = 0 /\ scorecard.coveragePct = 9200
    /\ scorecard.coverageFloor = 0

\* C3 as stated: over any sequence of runs the floor after a run is never
\* lower than the floor before it.
C3_FloorNeverDecreases ==
    [][scorecard'.coverageFloor >= scorecard.coverageFloor]_vars

\* C3 amended: the floor after a run is never lower than the floor before it,
\* except in a qualified run that directly follows an unqualified run, which
\* resets the floor to max(0, coverage - 2).
C3_FloorDecreasesOnlyOnReset ==
    [][now' # now =>
         \/ scorecard'.coverageFloor >= scorecard.coverageFloor
         \/ /\ scorecard'.coverageQualified
            /\ ~scorecard.coverageQualified
            /\ scorecard'.coverageFloor = Max(0, scorecard'.coveragePct - 200)]_vars

\* C3 witness: a qualified run after an unqualified one lowered the floor.
C3_Witness ==
    /\ now > 0 /\ scorecard.coverageQualified /\ ~previous.coverageQualified
    /\ scorecard.coverageFloor < previous.coverageFloor

\* C5: under fixed thresholds the recommendation is a non-decreasing function
\* of the cumulative count (defaults: up to 2 none, 3 and 4 claude_rule, from 5
\* lint_rule), and no run moves a stored recommendation backward.
C5_RecommendationNeverDemoted ==
    [][now' # now =>
         \A p \in PatternKeys :
            /\ RecRank(StoredRecommendation(patterns', p))
                 >= RecRank(StoredRecommendation(patterns, p))
            /\ (p \in DOMAIN patterns' /\ thresholds' = DefaultThresholds)
                 => patterns'[p].recommendation =
                      (IF patterns'[p].count <= 2 THEN "none"
                       ELSE IF patterns'[p].count <= 4 THEN "claude_rule"
                       ELSE "lint_rule")]_vars

\* C5 witness: under the defaults a pattern that stood at 3 or 2 was seen
\* again, stands at 4 with claude_rule, and another stands at 5 with lint_rule.
C5_Witness ==
    /\ thresholds = DefaultThresholds
    /\ \E p, q \in DOMAIN patterns :
          /\ patterns[p].count = 4 /\ patterns[p].recommendation = "claude_rule"
          /\ p \in DOMAIN detected
          /\ patterns[q].count = 5 /\ patterns[q].recommendation = "lint_rule"

\* C6 as stated: a run emits a promotion for a pattern if and only if the
\* recommendation it stores for the pattern differs from the one stored before.
C6_PromotionIffRecommendationDiffers ==
    [][now' # now =>
         \A p \in PatternKeys :
            Promoted(promotions', p)
              <=> StoredRecommendation(patterns', p) # StoredRecommendation(patterns, p)]_vars

\* C6 amended: a run emits a promotion for a pattern if and only if the
\* recommendation it stores for the pattern differs from the one stored before
\* and is not none.
C6_PromotionIffMovedToRule ==
    [][now' # now =>
         \A p \in PatternKeys :
            Promoted(promotions', p)
              <=> /\ StoredRecommendation(patterns', p) # StoredRecommendation(patterns, p)
                  /\ StoredRecommendation(patterns', p) # "none"]_vars

\* C6 witness: in one run a pattern was promoted to lint_rule while another,
\* matched as well, stayed at claude_rule without a promotion.
C6_Witness ==
    \E p, q \in DOMAIN detected :
        /\ promotions = <<[pattern |-> p, recommendation |-> "lint_rule"]>>
        /\ patterns[q].recommendation = "claude_rule"

\* C7: after a run each matched pattern's count is its count before plus the
\* run's matches; an unmatched pattern keeps count, last-seen time and
\* recommendation; no count decreases or is reset.
C7_CountsAccumulate ==
    [][now' # now =>
         \A p \in PatternKeys :
            /\ p \in DOMAIN detected'
                 => /\ p \in DOMAIN patterns'
                    /\ patterns'[p].count = StoredCount(patterns, p) + detected'[p]
                    /\ patterns'[p].lastSeenAt = now'
            /\ p \notin DOMAIN detected'
                 => /\ (p \in DOMAIN patterns') = (p \in DOMAIN patterns)
                    /\ p \in DOMAIN patterns => patterns'[p] = patterns[p]
            /\ StoredCount(patterns', p) >= StoredCount(patterns, p)]_vars

\* C7 witness: the latest run matched one known pattern and not the other,
\* which keeps its earlier last-seen time.
C7_Witness ==
    \E p, q \in DOMAIN patterns :
        /\ p \in DOMAIN detected /\ patterns[p].count > detected[p]
        /\ q \notin DOMAIN detected /\ patterns[q].lastSeenAt < now

(***************************************************************************)
(* Claims about the scorecard computation.                                 *)
(***************************************************************************)
ComponentNames ==
    {"typeSafety", "testHealth", "lintCompliance", "coverageLevel", "buildStability"}

\* The weighted sum of the stored components, in 1/10000 of a point.
WeightedSum ==
    score.components.typeSafety * weights.typeSafety
    + score.components.testHealth * weights.testHealth
    + score.components.lintCompliance * weights.lintCompliance
    + score.components.coverageLevel * weights.coverageLevel
    + score.components.buildStability * weights.buildStability

\* C4: for every snapshot and weight map each component lies in [0, 100] and
\* the overall score is the weighted sum of the five components, clamped to
\* [0, 100] and rounded to two decimals (within half a hundredth of it).
C4_ScoresClampedAndRounded ==
    score.done =>
        LET clamped == Max(0, Min(1000000, WeightedSum))
            diff == 100 * score.overall - clamped
        IN  /\ \A c \in ComponentNames : score.components[c] \in 0..10000
            /\ score.overall \in 0..10000
            /\ diff <= 50 /\ -diff <= 50

\* C4 witness: 13 type errors and 120% coverage are clamped to 0 and 100, and
\* a weighted sum above 100 is clamped to 100.
C4_Witness ==
    /\ score.done
    /\ metrics.typeErrors = 13 /\ score.components.typeSafety = 0
    /\ metrics.coveragePct = 12000 /\ score.components.coverageLevel = 10000
    /\ WeightedSum > 1000000 /\ score.overall = 10000

(***************************************************************************)
(* Claims about the verify policy merge.                                   *)
(***************************************************************************)
\* The sources in merge order: the packs as listed, then the repo block.
Sources == Append(packFiles, repoVerify)

\* The gate entries that carry an id, of all sources, in merge order.
RECURSIVE IdEntries(_)
IdEntries(sources) ==
    IF sources = <<>> THEN <<>>
    ELSE SelectSeq(GatesOf(Head(sources)), HasId) \o IdEntries(Tail(sources))

FirstEntry(entries, id) ==
    CHOOSE i \in DOMAIN entries :
        entries[i].id = id /\ \A j \in DOMAIN entries : entries[j].id = id => i <= j

\* C8: in the effective configuration every gate id occurs once, the ids are
\* those the packs and the repo block define, and the gates stand in the
\* order in which their ids first appear over the sources in merge order.
C8_GateIdsUniqueUnionFirstAppearance ==
    Normalized =>
        LET gates == effective.gates
            entries == IdEntries(Sources)
        IN  /\ \A i \in DOMAIN gates : HasId(gates[i])
            /\ \A i, j \in DOMAIN gates : gates[i].id = gates[j].id => i = j
            /\ {gates[i].id : i \in DOMAIN gates} = {entries[i].id : i \in DOMAIN entries}
            /\ \A i, j \in DOMAIN gates :
                  i < j => FirstEntry(entries, gates[i].id) < FirstEntry(entries, gates[j].id)

\* C8 witness: two ids over three entries, the id listed first is defined
\* again by the last entry of the last source and still stands first.
C8_Witness ==
    /\ Normalized
    /\ Len(packFiles) >= 1
    /\ Len(effective.gates) = 2
    /\ Len(IdEntries(Sources)) = 3
    /\ Len(GatesOf(repoVerify)) >= 1
    /\ HasId(repoVerify.gates[Len(repoVerify.gates)])
    /\ repoVerify.gates[Len(repoVerify.gates)].id = effective.gates[1].id

\* C9: each field of an effective gate has the value given by the last entry,
\* in merge order, that defines the field for the gate's id, and the gate
\* carries every field some entry for its id defines.
C9_LastDefinitionWinsPerField ==
    Normalized =>
        LET entries == IdEntries(Sources) IN
        \A n \in DOMAIN effective.gates : \A f \in GateFields :
            LET gate == effective.gates[n]
                defs == {i \in DOMAIN entries : entries[i].id = gate.id /\ f \in DOMAIN entries[i]}
            IN  IF defs = {} THEN f \notin DOMAIN gate
                ELSE /\ f \in DOMAIN gate
                     /\ gate[f] = entries[CHOOSE i \in defs : \A j \in defs : j <= i][f]

\* C9 witness: pack a sets the type of build, pack b only its required flag,
\* the repo block sets the type again: the effective gate has the repo's type
\* and pack b's flag.
C9_Witness ==
    /\ Normalized
    /\ Len(packFiles) = 2
    /\ GatesOf(packFiles[1]) = <<[id |-> "build", type |-> "command"]>>
    /\ GatesOf(packFiles[2]) = <<[id |-> "build", required |-> "false"]>>
    /\ GatesOf(repoVerify) = <<[id |-> "build", type |-> "regex"]>>
    /\ effective.gates = <<[id |-> "build", type |-> "regex", required |-> "false"]>>

\* Applying patch to base twice gives the gates of applying it once.
Idempotent(base, patch) ==
    ApplyVerifyPatch(ApplyVerifyPatch(base, patch), patch).gates
        = ApplyVerifyPatch(base, patch).gates

\* Every patch of the configuration is idempotent on every stage of the merge.
MergeIdempotent ==
    \A n \in 0..Len(packFiles) : \A s \in DOMAIN Sources :
        Idempotent(ApplyPacks(DEFAULT_VERIFY_CONFIG, SubSeq(packFiles, 1, n)), Sources[s])

\* The pack list with packs i and i+1 replaced by their pre-combined merge.
Precombined(i) ==
    SubSeq(packFiles, 1, i - 1)
        \o <<ApplyVerifyPatch(packFiles[i], packFiles[i + 1])>>
        \o SubSeq(packFiles, i + 2, Len(packFiles))

\* Merging with two adjacent packs pre-combined gives the gate list that
\* normalizeVerifyConfig produced from the packs one by one.
MergeAssociative ==
    \A i \in 1..(Len(packFiles) - 1) :
        NormalizeVerifyConfig(Precombined(i), repoVerify).gates = effective.gates

\* No two sources give different values to one field of one gate id.
NoConflict ==
    \A s, t \in DOMAIN Sources : s # t =>
        \A a \in DOMAIN GatesOf(Sources[s]), b \in DOMAIN GatesOf(Sources[t]) :
            LET g == Sources[s].gates[a]
                h == Sources[t].gates[b]
            IN  (HasId(g) /\ HasId(h) /\ g.id = h.id)
                    => \A f \in DOMAIN g \cap DOMAIN h : g[f] = h[f]

\* No pack lists one gate id twice.
PackIdsUnique ==
    \A s \in DOMAIN packFiles :
        \A a, b \in DOMAIN GatesOf(packFiles[s]) :
            LET g == packFiles[s].gates[a]
                h == packFiles[s].gates[b]
            IN  (HasId(g) /\ HasId(h) /\ g.id = h.id) => a = b

\* C10 as stated: the merge is idempotent, and merging pack A, pack B and the
\* override equals merging the pre-combined merge(A, B) and the override
\* whenever no two sources conflict on a field of a gate id.
C10_IdempotentAndAssociative ==
    Normalized =>
        /\ MergeIdempotent
        /\ NoConflict => MergeAssociative

\* C10 amended: the same, whenever in addition no pack lists one gate id twice.
C10_IdempotentAndAssociativeForUniqueIds ==
    Normalized =>
        /\ MergeIdempotent
        /\ (NoConflict /\ PackIdsUnique) => MergeAssociative

\* C10 witness: packs a and b patch different fields of build, the repo block
\* adds docs; no conflict, no repeated id, and the merged gate has both fields.
C10_Witness ==
    /\ Normalized /\ NoConflict /\ PackIdsUnique
    /\ Len(packFiles) = 2
    /\ GatesOf(packFiles[1]) = <<[id |-> "build", type |-> "command"]>>
    /\ GatesOf(packFiles[2]) = <<[id |-> "build", required |-> "false"]>>
    /\ GatesOf(repoVerify) = <<[id |-> "docs", type |-> "file_exists"]>>
    /\ effective.gates = <<[id |-> "build", type |-> "command", required |-> "false"],
                           [id |-> "docs", type |-> "file_exists"]>>

(***************************************************************************)
(* Claims about the verify run.                                            *)
(***************************************************************************)
\* The value the merge leaves under a scalar key: that of the last of the
\* packs and the repo block that carries the key, else the default.
MergedScalar(key) ==
    LET all == packFiles \o <<repoVerify>>
        writers == {i \in DOMAIN all : key \in DOMAIN all[i]}
    IN  IF writers = {} THEN DEFAULT_VERIFY_CONFIG[key]
        ELSE all[CHOOSE i \in writers : \A j \in writers : j <= i][key]

Started == pc # "idle"
Running == pc \in {"gates", "done"}

\* C11 as stated: when the merged taskIdSources is empty or not a list the
\* effective configuration carries the default list, and every effective
\* configuration has resolveTaskIds consult at least one of cli, env, branch.
C11_TaskIdDiscoveryNeverDisabled ==
    Started =>
        /\ (~MergedScalar("taskIdSources").isArray
                \/ MergedScalar("taskIdSources").items = <<>>)
              => effective.taskIdSources = JsonArray(<<"cli", "env", "branch">>)
        /\ SourcesConsulted(effective) # {}

\* C12: the commands of the effective configuration are the repo's four
\* configured commands, whatever commands object a pack or the verify block
\* carries, and a ${commands.build} gate runs the repo's build command.
C12_CommandsAreTheRepoCommands ==
    Started =>
        /\ effective.commands = RepoCommands
        /\ \A i \in DOMAIN evaluated :
              evaluated[i].id = "build" => evaluated[i].command.text = RepoCommands.build

\* C12 witness: a pack and the verify block both carry a commands object, and
\* the build gate has run.
C12_Witness ==
    /\ pc = "done"
    /\ \E i \in DOMAIN packFiles : "commands" \in DOMAIN packFiles[i]
    /\ "commands" \in DOMAIN repoVerify
    /\ \E i \in DOMAIN evaluated : evaluated[i].id = "build"
    /\ effective.commands = RepoCommands

\* The gate of the effective list that carries an id.
GateOf(id) ==
    effective.gates[CHOOSE k \in DOMAIN effective.gates : effective.gates[k].id = id]

RequiredGateFailed ==
    \E i \in DOMAIN gateResults :
        gateResults[i].required /\ gateResults[i].status = "fail"
EvidenceMissing == effective.requiredTaskEvidence /\ taskIds = <<>>

\* C13 as stated: an enabled verify invocation ends with a non-zero outcome
\* if and only if a required gate has final status fail or required task
\* evidence is missing.
C13_FailsIffRequiredGateFailsOrEvidenceMissing ==
    pc \in {"done", "aborted"} =>
        (exitCode # 0 <=> (RequiredGateFailed \/ EvidenceMissing))

\* C13 amended: an enabled verify invocation that reaches its gate loop ends
\* with a non-zero outcome if and only if a required gate has final status
\* fail or required task evidence is missing (failed gates that are not
\* required and waived gates do not count, and no waiver covers the missing
\* task id); an invocation whose waivers file is malformed ends with a
\* non-zero outcome before any gate is evaluated and writes no artifact.
C13_CompletedRunFailsIffRequiredGateFailsOrEvidenceMissing ==
    /\ pc = "done" =>
          /\ exitCode # 0 <=> (RequiredGateFailed \/ EvidenceMissing)
          /\ verification.written
          /\ verification.missingTaskId = EvidenceMissing
    /\ pc = "aborted" =>
          /\ exitCode # 0
          /\ WaiversFileMalformed(env.waiversFile)
          /\ evaluated = <<>> /\ ~verification.written

\* C13 witness: a finished run with outcome 0 in which a gate that is not
\* required failed and a required gate was waived.
C13_Witness ==
    /\ pc = "done" /\ exitCode = 0
    /\ \E i, j \in DOMAIN gateResults :
          /\ ~gateResults[i].required /\ gateResults[i].status = "fail"
          /\ gateResults[j].required /\ gateResults[j].status = "waived"

\* C14 as stated: a result is waived only if the gate's evaluation failed and
\* the gate is required; a gate that passed is recorded as pass and a failed
\* gate that is not required is recorded as fail.
C14_WaivedOnlyIfFailedAndRequired ==
    \A i \in DOMAIN gateResults :
        /\ gateResults[i].status = "waived"
              => (evaluated[i].status = "fail" /\ gateResults[i].required)
        /\ evaluated[i].status = "pass" => gateResults[i].status = "pass"
        /\ (evaluated[i].status = "fail" /\ ~gateResults[i].required)
              => gateResults[i].status = "fail"

\* C15: a gate with enabled:false is never evaluated, never looked up in the
\* waivers, has no entry in the results and is not counted, whatever its type
\* and required flag and whatever the waivers hold.
C15_DisabledGateSkipped ==
    Running =>
        /\ \A k \in DOMAIN effective.gates :
              ("enabled" \in DOMAIN effective.gates[k] /\ ~effective.gates[k].enabled) =>
                 /\ \A i \in DOMAIN evaluated : evaluated[i].id # effective.gates[k].id
                 /\ \A i \in DOMAIN lookups : lookups[i] # effective.gates[k].id
                 /\ \A i \in DOMAIN gateResults : gateResults[i].id # effective.gates[k].id
        /\ pc = "done" =>
              /\ verification.gates = gateResults
              /\ verification.gateCounts.total =
                    Cardinality({k \in 1..(gateIndex - 1) :
                                    \E i \in DOMAIN evaluated :
                                        evaluated[i].id = effective.gates[k].id})
              /\ verification.gateCounts.total =
                    verification.gateCounts.passed + verification.gateCounts.failed
                        + verification.gateCounts.waived

\* C15 witness: a finished run whose list holds the disabled gate and a gate
\* that failed and was waived by the waiver for every gate.
C15_Witness ==
    /\ pc = "done"
    /\ \E k \in DOMAIN effective.gates :
          "enabled" \in DOMAIN effective.gates[k] /\ ~effective.gates[k].enabled
    /\ \E i \in DOMAIN waivers : waivers[i] = [gateId |-> "*"]
    /\ \E i \in DOMAIN gateResults : gateResults[i].status = "waived"
    /\ verification.gateCounts.total = 1

Ids(list) == [i \in DOMAIN list |-> list[i].id]

\* C16 as stated: when the run is finished the result list holds exactly one
\* entry for every gate of the effective list whose enabled is not false, in
\* list order, whatever failed or was waived on the way.
C16_EveryEnabledGateHasOneEntryInOrder ==
    pc = "done" =>
        Ids(gateResults) = Ids(SelectSeq(effective.gates, LAMBDA g : ~Disabled(g)))

\* C17 as stated: every gate the loop has passed whose enabled is not false
\* and whose type is none of the five known types has a result with status
\* fail and the message "unsupported gate type", and is not recorded as pass.
C17_UnknownTypeFailsClosed ==
    Running =>
        \A k \in 1..(gateIndex - 1) :
            LET gate == effective.gates[k]
            IN  (~Disabled(gate) /\ ("type" \notin DOMAIN gate \/ gate.type \notin GateTypes))
                  => \E i \in DOMAIN evaluated :
                        /\ evaluated[i].id = gate.id
                        /\ evaluated[i].status = "fail"
                        /\ evaluated[i].message = "unsupported gate type"
                        /\ gateResults[i].id = gate.id
                        /\ gateResults[i].status # "pass"

\* The messages of the exceptions a gate evaluation raises.
ErrorMessages ==
    {"error: The \"file\" argument must be of type string",
     "error: Invalid regular expression",
     "error: Unexpected token in JSON"}

\* The gates of the list that runVerify evaluates.
EvaluatedGates == SelectSeq(effective.gates, LAMBDA g : HasType(g) /\ ~Disabled(g))

\* C18: an exception raised while a gate is evaluated becomes that gate's
\* result, with status fail and the error's message (kept in the recorded
\* entry); the run goes on to the next gate, evaluates every later gate and
\* writes the artifact; no run aborts once a gate has been evaluated.
C18_GateExceptionBecomesFailResult ==
    /\ \A i \in DOMAIN evaluated :
          evaluated[i].message \in ErrorMessages =>
             /\ evaluated[i].status = "fail"
             /\ gateResults[i].id = evaluated[i].id
             /\ gateResults[i].message = evaluated[i].message
             /\ gateResults[i].status \in {"fail", "waived"}
    /\ pc = "aborted" => evaluated = <<>>
    /\ pc = "gates" =>
          Ids(evaluated) = Ids(SelectSeq(SubSeq(effective.gates, 1, gateIndex - 1),
                                         LAMBDA g : HasType(g) /\ ~Disabled(g)))
    /\ pc = "done" =>
          /\ verification.written
          /\ Ids(verification.gates) = Ids(EvaluatedGates)

\* C18 witness: a finished run in which the first gate raised an exception
\* and the gate after it was evaluated and passed.
C18_Witness ==
    /\ pc = "done" /\ verification.written
    /\ Len(evaluated) = 2
    /\ evaluated[1].message \in ErrorMessages
    /\ verification.gates[1].status = "fail"
    /\ verification.gates[2].status = "pass"

\* The task id contexts a result shows the gate to have run against: the task
\* ids of its checks, or the task id put into its command.
RanAgainst(result) ==
    IF result.type \in {"file_exists", "json_schema"}
    THEN [i \in DOMAIN result.checks |-> result.checks[i].taskId]
    ELSE <<TaskIdOrNull(result.command.taskId)>>

\* The results that show their contexts: a command whose template carries
\* ${taskId} and that was run, a file_exists gate with a path, a json_schema
\* gate whose schema file was loaded.
ShowsContexts(result) ==
    LET gate == GateOf(result.id)
    IN  CASE result.type \in {"command", "custom_script"} ->
                /\ "command" \in DOMAIN gate
                /\ gate.command \notin DOMAIN CommandReferences
          [] result.type = "file_exists" -> "path" \in DOMAIN gate
          [] result.type = "json_schema" ->
                result.message \in {"schema validation passed", "schema validation failed"}
          [] OTHER -> FALSE

PrimaryContext == <<TaskIdOrNull(IF taskIds = <<>> THEN "" ELSE taskIds[1])>>

\* C19 as stated: a gate with forEachTaskId runs once against each resolved
\* task id, whatever its type; a gate without it runs exactly once, against
\* the first resolved id or the empty string.
C19_ForEachTaskIdRunsPerResolvedId ==
    \A i \in DOMAIN evaluated :
        ShowsContexts(evaluated[i]) =>
            RanAgainst(evaluated[i]) =
                (IF ForEachTaskId(GateOf(evaluated[i].id)) THEN taskIds ELSE PrimaryContext)

\* C19 amended: a file_exists gate with a path and a json_schema gate whose
\* schema file loads, with forEachTaskId, are checked once against each
\* resolved task id, and once against the empty task id when none was
\* resolved; a command or custom_script gate runs once against the first
\* resolved id (or the empty string) whether or not it sets forEachTaskId; a
\* gate without forEachTaskId runs exactly once against that single context.
C19_ForEachTaskIdRunsPerIdForFileAndSchemaGates ==
    \A i \in DOMAIN evaluated :
        ShowsContexts(evaluated[i]) =>
            RanAgainst(evaluated[i]) =
                (IF /\ ForEachTaskId(GateOf(evaluated[i].id))
                    /\ evaluated[i].type \in {"file_exists", "json_schema"}
                    /\ taskIds # <<>>
                 THEN taskIds
                 ELSE PrimaryContext)

\* C19 witness: with two task ids resolved, the custom_script gate with
\* forEachTaskId ran once against the first id and the file_exists gate with
\* forEachTaskId was checked against both.
C19_Witness ==
    /\ Len(taskIds) = 2
    /\ Len(evaluated) = 2
    /\ evaluated[1].type = "custom_script" /\ ForEachTaskId(GateOf(evaluated[1].id))
    /\ evaluated[1].command.taskId = taskIds[1]
    /\ evaluated[2].type = "file_exists" /\ ForEachTaskId(GateOf(evaluated[2].id))
    /\ Len(evaluated[2].checks) = 2
    /\ evaluated[2].checks[2].taskId = taskIds[2]

\* The claim's three conditions on the waiver at place k of the loaded list,
\* for the gate id of a failed result: it names the gate or "*"; it carries no
\* task id (none, or an empty one), "*", or a resolved id, or no id was
\* resolved; and it carries no expiry that lies in the past.
Satisfies(k, id) ==
    LET w == waivers[k]
    IN  /\ w # Null
        /\ "gateId" \in DOMAIN w /\ w.gateId \in {id, "*"}
        /\ \/ "taskId" \notin DOMAIN w
           \/ w.taskId \in {"", "*"}
           \/ taskIds = <<>>
           \/ w.taskId \in {taskIds[j] : j \in DOMAIN taskIds}
        /\ \/ "expiresAt" \notin DOMAIN w
           \/ w.expiresAt \notin DOMAIN DateTimes
           \/ DateTimes[w.expiresAt] >= DateNow

\* C20: for every failed gate the entry recorded is waived with the first
\* waiver of the file that satisfies the three conditions, also when a later
\* waiver satisfies them more specifically, and stays fail when none does.
C20_FirstMatchingWaiverWins ==
    \A i \in DOMAIN gateResults :
        evaluated[i].status = "fail" =>
            LET matching == {k \in DOMAIN waivers : Satisfies(k, evaluated[i].id)}
            IN  IF matching = {}
                THEN gateResults[i].status = "fail"
                ELSE /\ gateResults[i].status = "waived"
                     /\ gateResults[i].waiver =
                           waivers[CHOOSE k \in matching : \A j \in matching : k <= j]

\* C20 witness: build failed with ABC-1 resolved, the file lists the waiver
\* for every gate before the one for build and ABC-1, and the entry carries
\* the first.
C20_Witness ==
    /\ taskIds = <<"ABC-1">>
    /\ waivers = <<[gateId |-> "*"], [gateId |-> "build", taskId |-> "ABC-1"]>>
    /\ \E i \in DOMAIN gateResults :
          /\ gateResults[i].id = "build"
          /\ gateResults[i].status = "waived"
          /\ gateResults[i].waiver = [gateId |-> "*"]

(***************************************************************************)
(* Claims about waiver expiry.                                             *)
(***************************************************************************)
\* The waivers recorded in the entries of the run.
RecordedWaivers ==
    {gateResults[i].waiver : i \in {j \in DOMAIN gateResults : gateResults[j].status = "waived"}}

\* A waiver for the gate with neither taskId nor expiresAt waives its failure.
PlainWaiverWaives ==
    \A i \in DOMAIN gateResults :
        /\ evaluated[i].status = "fail"
        /\ \E k \in DOMAIN waivers : waivers[k] = [gateId |-> evaluated[i].id]
        => gateResults[i].status = "waived"

\* C21 as stated: a recorded waiver has no expiresAt or one that denotes a
\* time later than now, and a waiver naming the gate with no taskId and no
\* expiresAt always waives the failed gate.
C21_WaiverMatchesOnlyWithoutOrFutureExpiry ==
    /\ \A w \in RecordedWaivers :
          \/ "expiresAt" \notin DOMAIN w
          \/ /\ w.expiresAt \in DOMAIN DateTimes
             /\ DateTimes[w.expiresAt] > DateNow
    /\ PlainWaiverWaives

\* C21 amended: a recorded waiver has no (or an empty) expiresAt, or one that
\* does not parse as a time, or one that denotes a time not earlier than now;
\* so a waiver whose expiresAt is a time in the past is never recorded, and a
\* waiver naming the gate with no taskId and no expiresAt always waives the
\* failed gate.
C21_WaiverMatchesUnlessExpiryInThePast ==
    /\ \A w \in RecordedWaivers :
          \/ "expiresAt" \notin DOMAIN w
          \/ w.expiresAt = ""
          \/ w.expiresAt \notin DOMAIN DateTimes
          \/ DateTimes[w.expiresAt] >= DateNow
    /\ PlainWaiverWaives

\* C21 witness: build failed, the file lists a waiver for build that expired
\* in 2020 and then the same waiver without expiresAt, and the entry is
\* waived by the second.
C21_Witness ==
    /\ waivers = <<[gateId |-> "build", expiresAt |-> "2020-01-01T00:00:00Z"],
                   [gateId |-> "build"]>>
    /\ \E i \in DOMAIN gateResults :
          /\ gateResults[i].id = "build"
          /\ evaluated[i].status = "fail"
          /\ gateResults[i].status = "waived"
          /\ gateResults[i].waiver = [gateId |-> "build"]

(***************************************************************************)
(* Claims about the schema validator.                                      *)
(***************************************************************************)
ExampleSchema ==
    [type |-> "object", required |-> <<"a">>,
     properties |-> [a |-> [type |-> "string", minLength |-> 3]]]

MinLengthOfA == <<"$.a: must have minLength 3">>
MissingA == <<"$: missing required property \"a\"">>

\* C22 as stated: against the example schema {"a":"hi"} yields the one
\* minLength error, {} the one missing-required error and {"a":"ok"} none.
C22_ExampleYieldsOneOneZeroErrors ==
    (schema = ExampleSchema /\ errors.done) =>
        /\ data = JObject([a |-> Hi]) => errors.list = MinLengthOfA
        /\ data = JObject(EmptyObject) => errors.list = MissingA
        /\ data = JObject([a |-> Ok]) => errors.list = <<>>

\* C22 amended: against the example schema {"a":"hi"} yields the one
\* minLength error, {} the one missing-required error, and {"a":"ok"}, whose
\* value is two characters long, the one minLength error as well.
C22_ExampleYieldsOneErrorEach ==
    (schema = ExampleSchema /\ errors.done) =>
        /\ data = JObject([a |-> Hi]) => errors.list = MinLengthOfA
        /\ data = JObject(EmptyObject) => errors.list = MissingA
        /\ data = JObject([a |-> Ok]) => errors.list = MinLengthOfA

\* C22 witness: {"a":"ok"} was validated against the example schema and the
\* list holds one error.
C22_Witness ==
    /\ schema = ExampleSchema
    /\ data = JObject([a |-> Ok])
    /\ errors.done
    /\ Len(errors.list) = 1

\* The supported constraints a value violates at a node and below it, each as
\* its path-qualified entry.  With typeFirst, the string, array and object
\* constraints of a node count only where the value is of the node's type,
\* and a node with $ref counts as the schema it refers to.
RECURSIVE Violations(_, _, _, _, _)
Violations(node, value, path, rootSchema, typeFirst) ==
    LET Entry(message) == CreateValidationError(path, message)
        Has(keyword) == keyword \in DOMAIN node
        ofType == ~Has("type")
                  \/ IF node.type = "integer"
                     THEN value.json = "number" /\ value.tenths % 10 = 0
                     ELSE value.json = node.type
        ofConst == {Entry("does not match const value") : x \in {1} \cap
                        {IF Has("const") /\ value # node.const THEN 1 ELSE 0}}
        ofEnum == {Entry("must be one of: "
                         \o Join([i \in DOMAIN node.enum |-> JsonStringify(node.enum[i])], ", ")) :
                     x \in {1} \cap {IF Has("enum") /\ \A i \in DOMAIN node.enum : node.enum[i] # value
                                     THEN 1 ELSE 0}}
        typeViolation == {Entry("expected type " \o node.type \o ", got " \o value.json) :
                            x \in {1} \cap {IF ofType THEN 0 ELSE 1}}
        strings ==
            IF value.json # "string" THEN {}
            ELSE {Entry("must have minLength " \o ToString(node.minLength)) :
                     x \in {1} \cap {IF Has("minLength") /\ Len(value.chars) < node.minLength
                                     THEN 1 ELSE 0}}
                 \cup {Entry("invalid pattern " \o node.pattern) :
                     x \in {1} \cap {IF Has("pattern") /\ node.pattern \in InvalidPatterns
                                     THEN 1 ELSE 0}}
                 \cup {Entry("does not match pattern " \o node.pattern) :
                     x \in {1} \cap {IF /\ Has("pattern")
                                        /\ node.pattern \notin InvalidPatterns
                                        /\ ~RegExpTest(node.pattern, value.chars)
                                     THEN 1 ELSE 0}}
        arrays ==
            IF value.json # "array" THEN {}
            ELSE {Entry("must have minItems " \o ToString(node.minItems)) :
                     x \in {1} \cap {IF Has("minItems") /\ Len(value.items) < node.minItems
                                     THEN 1 ELSE 0}}
                 \cup (IF Has("items")
                       THEN UNION {Violations(node.items, value.items[i],
                                              path \o "[" \o ToString(i - 1) \o "]",
                                              rootSchema, typeFirst) : i \in DOMAIN value.items}
                       ELSE {})
        objects ==
            IF value.json # "object" THEN {}
            ELSE {Entry("missing required property \"" \o node.required[i] \o "\"") :
                     i \in {j \in (IF Has("required") THEN DOMAIN node.required ELSE {}) :
                              node.required[j] \notin DOMAIN value.fields}}
                 \cup (IF Has("properties")
                       THEN UNION {Violations(node.properties[k], value.fields[k],
                                              path \o "." \o k, rootSchema, typeFirst) :
                                     k \in DOMAIN node.properties \cap DOMAIN value.fields}
                       ELSE {})
                 \cup {Entry("unexpected property \"" \o k \o "\"") :
                     k \in {j \in DOMAIN value.fields :
                              /\ Has("additionalProperties")
                              /\ node.additionalProperties = FALSE
                              /\ (Has("properties") => j \notin DOMAIN node.properties)}}
        nested ==
            (IF Has("allOf")
             THEN UNION {Violations(node.allOf[i], value, path, rootSchema, typeFirst) :
                           i \in DOMAIN node.allOf}
             ELSE {})
            \cup (IF /\ Has("if")
                     /\ Has("then")
                     /\ Violations(node["if"], value, "$", rootSchema, typeFirst) = {}
                  THEN Violations(node["then"], value, path, rootSchema, typeFirst)
                  ELSE {})
        here == nested \cup ofConst \cup ofEnum \cup typeViolation
                \cup (IF typeFirst /\ ~ofType THEN {} ELSE strings \cup arrays \cup objects)
        referred ==
            IF ResolveSchemaRef(rootSchema, node["$ref"]) = Null
            THEN {Entry("unresolved $ref " \o node["$ref"])}
            ELSE Violations(ResolveSchemaRef(rootSchema, node["$ref"]), value, path,
                            rootSchema, typeFirst)
    IN  IF ~Has("$ref") THEN here
        ELSE IF typeFirst THEN referred
        ELSE referred \cup here

Reported == {errors.list[i] : i \in DOMAIN errors.list}

\* C23 as stated: the error list holds one entry for each supported
\* constraint the data violates at the root node and below it, no more and no
\* fewer, so the data is valid exactly when the list is empty.
C23_EveryViolatedConstraintYieldsAnError ==
    errors.done =>
        /\ Reported = Violations(schema, data, "$", schema, FALSE)
        /\ Len(errors.list) = Cardinality(Reported)

\* C23 amended: the error list holds one entry for each supported constraint
\* the data violates at the root node and below it, except that at a node
\* whose value is not of the node's type the string, array and object
\* constraints of that node are not checked, and that a node with $ref is
\* checked against the schema referred to only; two violations at one node
\* give two entries, and the data is valid exactly when the list is empty.
C23_EveryViolatedConstraintOfATypedNodeYieldsAnError ==
    errors.done =>
        /\ Reported = Violations(schema, data, "$", schema, TRUE)
        /\ Len(errors.list) = Cardinality(Reported)

\* C23 witness: "ok" against {type: string, minLength: 3, pattern: ^h}
\* violates both string constraints and the list holds both errors.
C23_Witness ==
    /\ schema = [type |-> "string", minLength |-> 3, pattern |-> "^h"]
    /\ data = Ok
    /\ errors.done
    /\ errors.list = <<"$: must have minLength 3", "$: does not match pattern ^h">>

(***************************************************************************)
(* Claims about the end-to-end scenarios.                                  *)
(***************************************************************************)
\* The snapshot of a run whose checks all pass with 92% coverage, scored
\* under the default weights.
CleanRunAt92 ==
    /\ score.done
    /\ weights = DefaultWeights
    /\ metrics.typeErrors = 0
    /\ metrics.lintViolations = 0
    /\ metrics.testsFailed = 0
    /\ metrics.buildExitCode = 0
    /\ metrics.coveragePct = 9200

\* C24 as stated: a clean run at 92% coverage under the default weights
\* scores 100 overall.
C24_CleanRunAt92ScoresHundred ==
    CleanRunAt92 => score.overall = 10000

\* C24 amended: a clean run at 92% coverage under the default weights scores
\* 98.4 overall when the output reports a passing test, and 89.4 when it
\* reports no test count; every component but coverage (92) and, without test
\* counts, test health (70) is 100.
C24_CleanRunAt92ScoresBelowHundred ==
    CleanRunAt92 =>
        /\ score.components.coverageLevel = 9200
        /\ score.components.typeSafety = 10000
        /\ score.components.lintCompliance = 10000
        /\ score.components.buildStability = 10000
        /\ IF metrics.testsPassed > 0
           THEN score.components.testHealth = 10000 /\ score.overall = 9840
           ELSE score.components.testHealth = 7000 /\ score.overall = 8940

\* C24 witness: a clean run at 92% with a passing test was scored 98.4.
C24_Witness ==
    /\ CleanRunAt92
    /\ metrics.testsPassed > 0
    /\ score.overall = 9840

\* Nothing to fix in the snapshot but, possibly, the build.
NothingToFixButBuild ==
    /\ metrics.typeErrors = 0
    /\ metrics.lintViolations = 0
    /\ metrics.testsFailed = 0
    /\ metrics.coverageQualified
    /\ metrics.coveragePct >= metrics.coverageFloor

\* C25 as stated: when the checks pass, nothing is reported, the run is
\* coverage-qualified and coverage is not below the floor, the action item
\* list is empty.
C25_CleanRunHasNoActionItems ==
    (actionItems.built /\ NothingToFixButBuild /\ metrics.buildExitCode = 0) =>
        actionItems.items = <<>>

\* C25 amended: when the checks pass, nothing is reported, the run is
\* coverage-qualified and coverage is not below the floor, the action item
\* list holds no item about something to fix: it holds exactly the one
\* standing item that the quality gates passed.
C25_CleanRunHasOnlyTheGatesPassedItem ==
    (actionItems.built /\ NothingToFixButBuild /\ metrics.buildExitCode = 0) =>
        actionItems.items = <<GatesPassed>>

\* C25 witness: the items of a clean run at 92% over a floor of 90 were
\* listed.
C25_Witness ==
    /\ actionItems.built
    /\ NothingToFixButBuild
    /\ metrics.buildExitCode = 0
    /\ metrics.coveragePct = 9200
    /\ metrics.coverageFloor = 9000
    /\ Len(actionItems.items) = 1

\* The verify run ended, its one gate ran the build command, the command
\* exited non-zero and no waiver of the file matches the gate.
BuildGateFailedUnwaived ==
    /\ pc = "done"
    /\ effective.gates = <<BuildGate>>
    /\ Len(evaluated) = 1
    /\ evaluated[1].command.text = RepoCommands.build
    /\ evaluated[1].message = "command failed"
    /\ ~\E k \in DOMAIN waivers : Satisfies(k, "build")

\* C26: with a failing build and nothing else to fix, the build-stability
\* component is 0 and the action items hold the item about the unstable
\* build; a verify run whose one required gate runs the build command, with
\* no matching waiver, records the gate as fail, counts 1 total, 0 passed,
\* 1 failed, 0 waived, and exits non-zero.
C26_FailingBuildFailsScoreItemsAndVerify ==
    /\ (score.done /\ NothingToFixButBuild /\ metrics.buildExitCode # 0) =>
          score.components.buildStability = 0
    /\ (actionItems.built /\ NothingToFixButBuild /\ metrics.buildExitCode # 0) =>
          \E i \in DOMAIN actionItems.items : actionItems.items[i] = BuildUnstable
    /\ BuildGateFailedUnwaived =>
          /\ Len(gateResults) = 1
          /\ gateResults[1].id = "build"
          /\ gateResults[1].required
          /\ gateResults[1].status = "fail"
          /\ verification.written
          /\ verification.gateCounts = [total |-> 1, passed |-> 0, failed |-> 1, waived |-> 0]
          /\ exitCode # 0

\* C26 witness: the failing build was scored, its items listed, and the
\* verify run beside a waivers file that holds only an expired waiver for the
\* gate ended.
C26_Witness ==
    /\ score.done
    /\ actionItems.built
    /\ NothingToFixButBuild
    /\ metrics.buildExitCode = 1
    /\ BuildGateFailedUnwaived
    /\ waivers # <<>>
    /\ waivers[1].gateId = "build"
    /\ exitCode = 1

(***************************************************************************)
(* Claims about what an invocation writes, and when.                       *)
(***************************************************************************)
\* verification.json holds what the run resolved, loaded and recorded.
ArtifactOfTheRun ==
    /\ verification.written
    /\ verification.taskIds = taskIds
    /\ verification.policyPacks = effective.loadedPolicyPacks
    /\ verification.gates = gateResults
    /\ verification.gateCounts.total = Len(gateResults)
    /\ verification.gateCounts.passed + verification.gateCounts.failed
         + verification.gateCounts.waived = Len(gateResults)

\* C27 as stated: a verify invocation that ended without a configuration
\* error, with verify enabled or disabled, has written the artifact of the
\* run.
C27_EveryInvocationWritesTheArtifact ==
    pc \in {"done", "disabled"} => ArtifactOfTheRun

\* C27 amended: a verify invocation with verify enabled that ended without a
\* configuration error has written the artifact of the run, whatever its
\* gates gave; an invocation with verify disabled ends without writing it.
C27_EveryEnabledInvocationWritesTheArtifact ==
    /\ pc = "done" => ArtifactOfTheRun
    /\ pc = "disabled" => ~verification.written

\* C27 witness: an enabled run with a policy pack loaded and a failed gate
\* ended with the artifact written.
C27_Witness ==
    /\ pc = "done"
    /\ effective.loadedPolicyPacks # <<>>
    /\ \E i \in DOMAIN gateResults : gateResults[i].status = "fail"
    /\ ArtifactOfTheRun

\* The files of the claims below.
Persisted == <<scorecard, patterns, verification>>

AllFourChecksCompleted ==
    \A i \in DOMAIN REQUIRED_COMMAND_NAMES :
        \E j \in DOMAIN commandResults : commandResults[j].name = REQUIRED_COMMAND_NAMES[i]

EveryGateEvaluated ==
    /\ gateIndex > Len(effective.gates)
    /\ \A i \in DOMAIN effective.gates :
          \E j \in DOMAIN evaluated : evaluated[j].id = effective.gates[i].id

\* C28: a step writes scorecard.json or patterns.json only in a reflect run
\* whose four checks have completed, and verification.json only in a verify
\* run whose gates have all been evaluated; the step that stops a run leaves
\* the three files as they were.
C28_FilesWrittenOnlyAfterAllChecksAndGates ==
    [][/\ (scorecard' # scorecard \/ patterns' # patterns \/ now' # now) =>
             (rpc = "checks" /\ AllFourChecksCompleted)
       /\ verification' # verification =>
             (pc = "gates" /\ EveryGateEvaluated /\ verification'.gates = gateResults)
       /\ (rpc' = "stopped" \/ pc' = "stopped") => UNCHANGED Persisted]_vars

\* C28 witness: a reflect run and a verify run wrote their files, and the
\* reflect run after them was stopped with one to three checks completed.
C28_Witness ==
    /\ rpc = "stopped"
    /\ Len(commandResults) \in 1..3
    /\ scorecard.exists
    /\ verification.written

\* The configuration errors, as the files show them.
CommandMissing == \E name \in {"typecheck", "lint", "test", "build"} : name \notin userConfig.commands
NoPackageDirs == userConfig.packageDirs = 0
PackUnresolvable == ~userConfig.packsFound
WaiversMalformed == env.waiversFile.kind = "malformed"

\* C30: a reflect run that starts on a configuration without a required
\* command or without package directory aborts with no check run; a verify
\* run that starts on such a configuration, on an unresolvable policy pack
\* or, with verify enabled, on a malformed waivers file aborts with no gate
\* evaluated and a non-zero exit (with verify disabled the waivers file is not
\* read and the run ends with no gate evaluated); an aborted run runs nothing
\* afterwards, and none of these steps changes the three files.
C30_ConfigurationErrorAbortsBeforeChecksAndGates ==
    [][/\ (rpc = "idle" /\ rpc' # "idle" /\ (CommandMissing \/ NoPackageDirs)) =>
             (rpc' = "aborted" /\ commandResults' = <<>> /\ UNCHANGED Persisted)
       /\ (/\ pc = "idle"
           /\ pc' # "idle"
           /\ \/ CommandMissing
              \/ NoPackageDirs
              \/ PackUnresolvable
              \/ WaiversMalformed /\ repoVerify.enabled) =>
             (pc' = "aborted" /\ evaluated' = <<>> /\ exitCode' # 0 /\ UNCHANGED Persisted)
       /\ (pc = "idle" /\ pc' # "idle" /\ WaiversMalformed) =>
             (pc' \in {"aborted", "disabled"} /\ evaluated' = <<>> /\ UNCHANGED Persisted)
       /\ (rpc = "aborted" \/ pc = "aborted") =>
             UNCHANGED <<Persisted, commandResults, evaluated, gateResults>>]_vars

\* C30 witness: after a reflect run and a verify run that wrote their files,
\* a verify run on a valid configuration found a malformed waivers file and
\* aborted.
C30_Witness ==
    /\ pc = "aborted"
    /\ WaiversMalformed
    /\ ~CommandMissing /\ ~NoPackageDirs /\ ~PackUnresolvable
    /\ evaluated = <<>>
    /\ scorecard.exists
    /\ verification.written

(***************************************************************************)
(* Claims about the loop's pause flag.                                     *)
(***************************************************************************)
PauseFlagSet == control.exists /\ control.paused

QualityState == <<scorecard, patterns, loopState>>

\* C29: a step taken with the flag set runs no check and leaves scorecard,
\* patterns, loop state and flag as they were; the flag becomes set only in a
\* pause and cleared only in a start; pause, start and status run no check
\* and change no quality state; so no step taken while the flag stays set
\* changes the quality state.
C29_PausedStepIsSkipped ==
    [][/\ (PauseFlagSet /\ reported'.action = "step") =>
             (reported'.paused /\ UNCHANGED <<QualityState, commandResults, now, control>>)
       /\ (~PauseFlagSet /\ PauseFlagSet') => reported'.action = "pause"
       /\ (PauseFlagSet /\ ~PauseFlagSet') => reported'.action = "start"
       /\ reported'.action \in {"pause", "start", "status"} =>
             UNCHANGED <<QualityState, commandResults, now>>
       /\ (PauseFlagSet /\ PauseFlagSet') => UNCHANGED <<QualityState, commandResults, now>>]_vars

\* C29 witness: a step ran a reflect run and wrote the loop state, the loop
\* was paused, and the next step was skipped.
C29_Witness ==
    /\ PauseFlagSet
    /\ reported = [action |-> "step", paused |-> TRUE]
    /\ scorecard.exists
    /\ loopState.exists

(***************************************************************************)
(* C31: qualification.                                                     *)
(***************************************************************************)
\* Some configured package produced no coverage summary in the latest run.
SomePackageWithoutSummary == scorecard.coveragePackageCount < userConfig.packageDirs

QualifiedIffTestsPassAndCountIsExpected ==
    scorecard.coverageQualified <=>
        /\ scorecard.testExitCode = 0
        /\ scorecard.coveragePackageCount = NormalizeConfig(userConfig).coverage.expectedPackages

\* C31 as stated: a reflect run is qualified iff the test command exited 0
\* and the number of packages that yielded a summary equals the expected
\* count, and a run in which some configured package produced no summary is
\* never qualified.
C31_QualifiedIffAndNeverWithAMissingSummary ==
    scorecard.exists =>
        /\ QualifiedIffTestsPassAndCountIsExpected
        /\ SomePackageWithoutSummary => ~scorecard.coverageQualified

\* C31 amended: a reflect run is qualified iff the test command exited 0 and
\* the number of packages that yielded a summary equals the expected count;
\* where the expected count is the number of configured package directories
\* (the default), a run in which some configured package produced no summary
\* is never qualified.
C31_QualifiedIffAndNeverWithAMissingSummaryUnderTheDefaultCount ==
    scorecard.exists =>
        /\ QualifiedIffTestsPassAndCountIsExpected
        /\ (/\ NormalizeConfig(userConfig).coverage.expectedPackages = userConfig.packageDirs
            /\ SomePackageWithoutSummary)
           => ~scorecard.coverageQualified

\* Tests passed under the default expected count, one of three configured
\* packages produced no summary, and the run is not qualified.
C31_Witness ==
    /\ scorecard.exists
    /\ scorecard.testExitCode = 0
    /\ userConfig.expectedPackages = <<>>
    /\ userConfig.packageDirs = 3
    /\ scorecard.coveragePackageCount = 2
    /\ ~scorecard.coverageQualified

(***************************************************************************)
(* C32: the fresh baseline.                                                *)
(***************************************************************************)
\* C32: a qualified run whose previous run was unqualified, or that found no
\* scorecard, sets the floor to exactly max(0, coverage - 2) whatever floor
\* was stored (a first qualified run at 92% makes it 90), and after any
\* qualified run the floor is at least max(0, coverage - 2).
C32_QualifiedRunAfterUnqualifiedResetsToCandidate ==
    (scorecard.exists /\ scorecard.coverageQualified) =>
        /\ ~previous.coverageQualified =>
               scorecard.coverageFloor = Max(0, scorecard.coveragePct - 200)
        /\ (now = 1 /\ scorecard.coveragePct = 9200) => scorecard.coverageFloor = 9000
        /\ scorecard.coverageFloor >= Max(0, scorecard.coveragePct - 200)

\* A qualified run at 50% after an unqualified one that had left a floor of
\* 90: the floor is 48.
C32_Witness ==
    /\ scorecard.exists
    /\ scorecard.coverageQualified
    /\ ~previous.coverageQualified
    /\ previous.coverageFloor = 9000
    /\ scorecard.coveragePct = 5000
    /\ scorecard.coverageFloor = 4800

(***************************************************************************)
(* C33: the history.                                                       *)
(***************************************************************************)
\* C33: after every reflect run the persisted history has at most 50
\* entries, its last entry is the entry of the run just completed, entries
\* are in run order, and the oldest entries are the ones dropped: after n
\* runs from an empty history it holds exactly the last min(n, 50) runs.
C33_HistoryHoldsTheLastFiftyRuns ==
    scorecard.exists =>
        LET history == scorecard.history IN
        /\ Len(history) <= 50
        /\ Len(history) = Min(now, 50)
        /\ history[Len(history)].at = now
        /\ \A i \in DOMAIN history : history[i].at = now - Len(history) + i

\* The fifty-second run from an empty history: fifty entries, runs 3 to 52.
C33_Witness ==
    /\ scorecard.exists
    /\ now = 52
    /\ Len(scorecard.history) = 50
    /\ scorecard.history[1].at = 3
    /\ scorecard.history[50].at = 52

(***************************************************************************)
(* C34: the test-health score.                                             *)
(***************************************************************************)
\* |a|
Abs(a) == IF a >= 0 THEN a ELSE -a

\* C34: the test-health score is 100 x passed/(passed+failed), to two
\* decimals, when at least one test ran; when none ran it is 70 if no
\* failures were reported and 20 if failures were reported, and no snapshot
\* with non-negative counts yields 20 from that branch.
C34_TestHealthIsPassRatioOrSeventy ==
    score.done =>
        LET testTotal == metrics.testsPassed + metrics.testsFailed
            testHealth == score.components.testHealth
        IN  /\ testTotal > 0 =>
                  2 * Abs(testHealth * testTotal - 10000 * metrics.testsPassed) <= testTotal
            /\ testTotal = 0 =>
                  testHealth = (IF metrics.testsFailed = 0 THEN 7000 ELSE 2000)
            /\ testTotal = 0 => testHealth # 2000

\* A snapshot with no test counts scored 70 on test health.
C34_Witness ==
    /\ score.done
    /\ metrics.testsPassed = 0
    /\ metrics.testsFailed = 0
    /\ score.components.testHealth = 7000

(***************************************************************************)
(* C35: const and enum.                                                    *)
(***************************************************************************)
\* Deep equality of two JSON values: the same kind and the same content, an
\* object being its key/value pairs whatever order the keys were written in.
RECURSIVE DeepEqual(_, _)
DeepEqual(x, y) ==
    /\ x.json = y.json
    /\ CASE x.json = "null" -> TRUE
         [] x.json = "number" -> x.tenths = y.tenths
         [] x.json = "string" -> x.chars = y.chars
         [] x.json = "array" ->
               /\ Len(x.items) = Len(y.items)
               /\ \A i \in DOMAIN x.items : DeepEqual(x.items[i], y.items[i])
         [] x.json = "object" ->
               /\ DOMAIN x.fields = DOMAIN y.fields
               /\ \A k \in DOMAIN x.fields : DeepEqual(x.fields[k], y.fields[k])

\* The validator reported a const, an enum mismatch at the root.
ConstMismatchReported ==
    \E i \in DOMAIN errors.list : errors.list[i] = "$: does not match const value"
EnumMismatchReported ==
    EnumErrors(schema, data, "$") # <<>>
    /\ \E i \in DOMAIN errors.list : errors.list[i] = EnumErrors(schema, data, "$")[1]

\* C35: the const and enum checks use deep equality: a document passes const
\* exactly when it is deeply equal to the const value, and passes enum
\* exactly when it is deeply equal to some member, objects being compared by
\* their key/value pairs regardless of the order the keys are written in.
C35_ConstAndEnumUseDeepEquality ==
    errors.done =>
        /\ "const" \in DOMAIN schema =>
              (ConstMismatchReported <=> ~DeepEqual(data, schema.const))
        /\ "enum" \in DOMAIN schema =>
              (EnumMismatchReported <=>
                  ~\E i \in DOMAIN schema.enum : DeepEqual(schema.enum[i], data))

(***************************************************************************)
(* C36: the constructs of a node, in order.                                *)
(***************************************************************************)
RECURSIVE Flatten(_)
Flatten(lists) == IF lists = <<>> THEN <<>> ELSE Head(lists) \o Flatten(Tail(lists))

\* The errors of a node when its constructs are applied one after the other
\* in the order $ref, allOf, if/then, const, enum, type, string constraints,
\* array constraints, object constraints.  With refAlone a node with $ref is
\* checked against the referenced schema only; with typeGuards a value that
\* is not of the node's type is not checked against the node's string, array
\* and object constraints.
RECURSIVE InOrder(_, _, _, _, _, _)
InOrder(node, value, path, rootSchema, refAlone, typeGuards) ==
    LET Has(k) == k \in DOMAIN node
        Entry(message) == path \o ": " \o message
        Below(sub, v, at) == InOrder(sub, v, at, rootSchema, refAlone, typeGuards)
        When(violated, message) == IF violated THEN <<Entry(message)>> ELSE <<>>
        ref == IF ~Has("$ref") THEN <<>>
               ELSE IF ResolveSchemaRef(rootSchema, node["$ref"]) = Null
                    THEN <<Entry("unresolved $ref " \o node["$ref"])>>
                    ELSE Below(ResolveSchemaRef(rootSchema, node["$ref"]), value, path)
        allOf == IF Has("allOf")
                 THEN Flatten([i \in DOMAIN node.allOf |-> Below(node.allOf[i], value, path)])
                 ELSE <<>>
        ifThen == IF Has("if") /\ Has("then") /\ Below(node["if"], value, "$") = <<>>
                  THEN Below(node["then"], value, path) ELSE <<>>
        const == When(Has("const") /\ value # node.const, "does not match const value")
        enum == IF Has("enum")
                THEN When(\A i \in DOMAIN node.enum : node.enum[i] # value,
                          "must be one of: "
                          \o Join([i \in DOMAIN node.enum |-> JsonStringify(node.enum[i])], ", "))
                ELSE <<>>
        ofType == ~Has("type")
                  \/ IF node.type = "integer"
                     THEN value.json = "number" /\ value.tenths % 10 = 0
                     ELSE value.json = node.type
        type == IF ofType THEN <<>>
                ELSE <<Entry("expected type " \o node.type \o ", got " \o value.json)>>
        strings ==
            IF value.json # "string" THEN <<>>
            ELSE (IF Has("minLength")
                  THEN When(Len(value.chars) < node.minLength,
                            "must have minLength " \o ToString(node.minLength))
                  ELSE <<>>)
                 \o (IF ~Has("pattern") THEN <<>>
                     ELSE IF node.pattern \in InvalidPatterns
                          THEN <<Entry("invalid pattern " \o node.pattern)>>
                          ELSE When(~RegExpTest(node.pattern, value.chars),
                                    "does not match pattern " \o node.pattern))
        arrays ==
            IF value.json # "array" THEN <<>>
            ELSE (IF Has("minItems")
                  THEN When(Len(value.items) < node.minItems,
                            "must have minItems " \o ToString(node.minItems))
                  ELSE <<>>)
                 \o (IF Has("items")
                     THEN Flatten([i \in DOMAIN value.items |->
                                     Below(node.items, value.items[i],
                                           path \o "[" \o ToString(i - 1) \o "]")])
                     ELSE <<>>)
        objects ==
            IF value.json # "object" THEN <<>>
            ELSE LET required == IF Has("required") THEN node.required ELSE <<>>
                     named == IF Has("properties")
                              THEN SelectSeq(Keys(node.properties),
                                             LAMBDA k : k \in DOMAIN value.fields)
                              ELSE <<>>
                     closed == Has("additionalProperties") /\ node.additionalProperties = FALSE
                 IN  Flatten([i \in DOMAIN required |->
                                When(required[i] \notin DOMAIN value.fields,
                                     "missing required property \"" \o required[i] \o "\"")])
                     \o Flatten([i \in DOMAIN named |->
                                   Below(node.properties[named[i]], value.fields[named[i]],
                                         path \o "." \o named[i])])
                     \o Flatten([i \in DOMAIN value.keys |->
                                   When(closed /\ (Has("properties") =>
                                                      value.keys[i] \notin DOMAIN node.properties),
                                        "unexpected property \"" \o value.keys[i] \o "\"")])
    IN  IF refAlone /\ Has("$ref") THEN ref
        ELSE ref \o allOf \o ifThen \o const \o enum \o type
             \o (IF typeGuards /\ type # <<>> THEN <<>> ELSE strings \o arrays \o objects)

\* C36 as stated: every construct present on a node is applied, in the order
\* $ref, allOf, if/then, const, enum, type, string, array, object
\* constraints; a node with $ref and other keywords is validated against
\* both; then is applied only when the data fully matches if.
C36_EveryConstructAppliedInOrder ==
    errors.done => errors.list = InOrder(schema, data, "$", schema, FALSE, FALSE)

\* C36 amended: the constructs present on a node are applied in that order,
\* except that a node with $ref is validated against the referenced schema
\* only and that a value not of the node's type is not checked against the
\* node's string, array and object constraints; then is applied only when
\* the data fully matches if.
C36_ConstructsAppliedInOrderRefAloneTypeGuarding ==
    errors.done => errors.list = InOrder(schema, data, "$", schema, TRUE, TRUE)

\* {} against a node with $ref, type and required: the one error is that of
\* the schema referred to.
C36_Witness ==
    /\ errors.done
    /\ schema = ("$ref" :> "#/definitions/name")
                @@ [definitions |-> NameDefinitions, type |-> "object", required |-> <<"a">>]
    /\ data = JObject(EmptyObject)
    /\ errors.list = <<"$: expected type string, got object">>

(***************************************************************************)
(* C37: termination of the validator.                                      *)
(***************************************************************************)
\* C37: validateJsonAgainstSchema returns an error list for every schema and
\* every document: no schema makes the validation recurse without end or
\* throw, and a $ref that does not resolve yields the error at its path.
C37_ValidationReturnsAnErrorListForEverySchema ==
    /\ "thrown" \notin DOMAIN errors
    /\ (errors.done /\ "$ref" \in DOMAIN schema
                    /\ ResolveSchemaRef(schema, schema["$ref"]) = Null)
          => errors.list = <<"$: unresolved $ref " \o schema["$ref"]>>

(***************************************************************************)
(* C38: the promotions of a pattern over a sequence of runs.               *)
(***************************************************************************)
\* The recommendations promoted for a pattern in one run's promotions.
PromotedTo(promos, p) ==
    LET own == SelectSeq(promos, LAMBDA promotion : promotion.pattern = p)
    IN  [i \in DOMAIN own |-> own[i].recommendation]

\* The promotion events of a pattern over all runs so far, oldest first.
RECURSIVE PromotionEvents(_, _)
PromotionEvents(files, p) ==
    IF files = <<>> THEN <<>>
    ELSE PromotedTo(Head(files), p) \o PromotionEvents(Tail(files), p)

AtMostOneOfEachInOrder(events) ==
    /\ Len(events) <= 2
    /\ Cardinality({i \in DOMAIN events : events[i] = "claude_rule"}) <= 1
    /\ Cardinality({i \in DOMAIN events : events[i] = "lint_rule"}) <= 1
    /\ \A i \in DOMAIN events : events[i] # "none"
    /\ \A i, j \in DOMAIN events :
          (events[i] = "lint_rule" /\ events[j] = "claude_rule") => j < i

\* C38: under fixed thresholds, from an empty pattern file, each pattern key
\* receives at most two promotion events over any sequence of runs, at most
\* one to claude_rule and at most one to lint_rule, never one to none, and
\* claude_rule never after lint_rule; a run that raises the count from below
\* the claude threshold to at least the lint threshold emits exactly one
\* promotion for the pattern, to lint_rule.
C38_AtMostOnePromotionPerLevelInOrder ==
    [][now' # now =>
         \A p \in PatternKeys :
            /\ AtMostOneOfEachInOrder(PromotionEvents(reflections', p))
            /\ (/\ StoredCount(patterns, p) < thresholds.claudeRule
                /\ StoredCount(patterns', p) >= thresholds.lintRule)
               => PromotedTo(promotions', p) = <<"lint_rule">>]_vars

\* Under the defaults a pattern was promoted to claude_rule in one run and to
\* lint_rule in a later one, and another went from 2 to 5 in the latest run
\* with the one promotion to lint_rule.
C38_Witness ==
    /\ thresholds = DefaultThresholds
    /\ \E p, q \in PatternKeys :
          /\ PromotionEvents(reflections, p) = <<"claude_rule", "lint_rule">>
          /\ PromotedTo(promotions, p) = <<"lint_rule">>
          /\ PromotionEvents(reflections, q) = <<"lint_rule">>
          /\ PromotedTo(promotions, q) = <<"lint_rule">>
          /\ q \in DOMAIN patterns /\ patterns[q].count = 5
          /\ q \in DOMAIN detected /\ detected[q] = 3

(***************************************************************************)
(* C39: the verification artifact.                                         *)
(***************************************************************************)
\* C39: in every verification artifact gateCounts.total = passed + failed +
\* waived = the number of gate results, every result's status is pass, fail
\* or waived, a result carries a waiver record exactly when its status is
\* waived, and failures.requiredGateFailures <= gateCounts.failed.
C39_ArtifactCountsAndWaiverRecordsAgree ==
    verification.written =>
        LET counts == verification.gateCounts
            gates == verification.gates
        IN  /\ counts.total = counts.passed + counts.failed + counts.waived
            /\ counts.total = Len(gates)
            /\ \A i \in DOMAIN gates :
                  /\ gates[i].status \in {"pass", "fail", "waived"}
                  /\ ("waiver" \in DOMAIN gates[i]) <=> (gates[i].status = "waived")
            /\ verification.requiredGateFailures <= counts.failed

\* An artifact of two results, one waived with its waiver record and one
\* failed, required and not waived.
C39_Witness ==
    /\ verification.written
    /\ verification.gateCounts = [total |-> 2, passed |-> 0, failed |-> 1, waived |-> 1]
    /\ verification.requiredGateFailures = 1
    /\ \E i \in DOMAIN verification.gates :
          verification.gates[i].status = "waived" /\ "waiver" \in DOMAIN verification.gates[i]

====
